---- MODULE Spec2Model ----
(***************************************************************************)
(* Short URL service: cache-aside create/resolve/stats over a durable      *)
(* store (PostgreSQL table urls) and a fast store (Redis), with click      *)
(* counters accumulated in the fast store and written back by the          *)
(* ClickSyncScheduler.                                                      *)
(*                                                                         *)
(* Time is counted in units of 30 minutes.  Every store call is one atomic *)
(* step; a request handler or a sync pass is a sequence of such steps and  *)
(* other goroutines run between them.  A store call that fails with an I/O *)
(* error has no effect on the store.                                       *)
(***************************************************************************)
EXTENDS Integers, Sequences, FiniteSets, Bags, TLC

\* ------------------------------------------------------------------ bounds
MaxId == 2         \* values the id sequence hands out
MaxTime == 2       \* the clock runs from 0 to MaxTime
RateLimit == 2     \* requests the general rate limiter admits per window
StrictRateLimit == 1  \* requests the strict rate limiter of POST /shorten admits per window
RateWindow == 3    \* the window of both rate limiters (one minute), in clock units
MaxScanReturns == 2  \* how often one SCAN iteration returns the same key at most
Ulp == 2           \* the spacing of float64 at the magnitude of the timestamps (256 ns at UnixNano), in clock units

\* ------------------------------------------------------- program constants
ShortCodeLength == 6   \* SHORT_CODE_LENGTH default
urlCacheTTL == 2       \* 1 * time.Hour, in units of 30 minutes
Base == 62             \* len(base62Chars)

Procs == {"h1", "h2"}                  \* concurrent request goroutines
URLs == {"http://a", "http://b"}       \* destination URLs that pass the handler's validation
ExpiresInSet == {"", "30m"}            \* expires_in values of a request
Ids == 1..MaxId                        \* values of the BIGSERIAL sequence

\* ------------------------------------------------------------ short codes
\* A short code is the sequence of its symbols' indices in base62Chars.
RECURSIVE encodeDigits(_)
encodeDigits(num) ==
    IF num = 0 THEN <<>> ELSE Append(encodeDigits(num \div Base), num % Base)

encodeBase62(num) == IF num = 0 THEN <<0>> ELSE encodeDigits(num)

\* base62Chars, as the bytes of the string: '0'..'9', 'A'..'Z', 'a'..'z'
base62Chars ==
    [i \in 1..62 |-> IF i <= 10 THEN 47 + i ELSE IF i <= 36 THEN 54 + i ELSE 60 + i]

\* the string a sequence of symbol indices stands for: base62Chars[d] for each
CodeString(code) == [i \in 1..Len(code) |-> base62Chars[code[i] + 1]]

\* mutant: upper case letters count as 0
CharValue_noUpper(c) ==
    IF c >= 48 /\ c <= 57 THEN c - 48
    ELSE IF c >= 97 /\ c <= 122 THEN c - 97 + 36
    ELSE 0

\* decodeBase62: the value added for the character c
CharValue(c) ==
    IF c >= 48 /\ c <= 57 THEN c - 48
    ELSE IF c >= 65 /\ c <= 90 THEN c - 65 + 10
    ELSE IF c >= 97 /\ c <= 122 THEN c - 97 + 36
    ELSE 0

RECURSIVE decodeFrom(_, _)
decodeFrom(s, num) ==
    IF s = <<>> THEN num
    ELSE decodeFrom(Tail(s), num * Base + CharValue(Head(s)))

\* decodeBase62 of a string given by its bytes
decodeBase62(s) == decodeFrom(s, 0)

RECURSIVE padShortCode(_)
padShortCode(s) == IF Len(s) < ShortCodeLength THEN padShortCode(<<0>> \o s) ELSE s

ShortCodeOf(id) == padShortCode(encodeBase62(id))

\* the placeholder 'temp' of the INSERT: t, e, m, p in base62Chars
TempCode == <<55, 40, 48, 51>>
\* a code no record ever carries ("zzzzzz")
UnknownCode == <<61, 61, 61, 61, 61, 61>>

IssuedCodes == {ShortCodeOf(i) : i \in Ids}
ReqCodes == IssuedCodes \cup {UnknownCode}
AllCodes == ReqCodes \cup {TempCode}

\* sha256 of the URL, hex: collision-free on the URLs of the model
hashURL(u) == <<"sha256", u>>

\* parseDuration on the expires_in values of the model, in units of 30 minutes
parseDuration(s) ==
    CASE s = "30m" -> [ok |-> TRUE, d |-> 1]
      [] s = "1h" -> [ok |-> TRUE, d |-> 2]
      [] OTHER -> [ok |-> FALSE, d |-> 0]

\* ------------------------------------------------------------------- state
VARIABLES
    urls,      \* the urls table: a set of rows
    nextId,    \* the next value of the id sequence
    cache,     \* Redis "url:<code>": code -> set of at most one entry [data, exp]
    clicks,    \* Redis "clicks:<code>": code -> counter (0: the key is absent)
    now,       \* the clock
    pc,        \* per request goroutine: its next step
    req,       \* per request goroutine: the request it serves
    existing,  \* CreateShortURL's local 'existing' (set of at most one row)
    url,       \* the handler's local 'url' (set of at most one row)
    chkAt,     \* the clock value IsValid read when the handler checked 'url'
    err,       \* the error the service call returned
    resp,      \* the HTTP response of the finished request
    spc,       \* scheduler goroutine: its next step
    scursor,   \* scheduler: the short codes whose keys the SCAN iteration has still to visit
    skeys,     \* scheduler: keys of the pass still to handle, as often as SCAN returned them
    skey,      \* scheduler: short code being handled
    scount,    \* scheduler: count drained for skey
    serr,      \* scheduler: error of the last store call
    stopCh,    \* TRUE once Stop() closed the stop channel
    stopPc,    \* the caller of Stop(): "serving", "waiting" (in wg.Wait) or "returned"
    stopSnap,  \* history: per code durable + pending + in flight, and faults, when Stop() was called
    final,     \* TRUE while the pass is the final one before shutdown
    dataLoss,  \* clicks logged as "data loss" by the scheduler
    ops,       \* requests the behaviour may still accept
    faults,    \* store calls that may still fail with an I/O error
    passes,    \* periodic passes the ticker may still start
    incrs,     \* history: INCR calls completed per code
    missed,    \* history: per handler, the pending count its failed GetClickCount did not read
    resolved,  \* history: Resolve calls that returned a destination per code
    passStart, \* history: clicks and durable counts when the pass scanned
    passClean, \* history: no store error and no increment since the pass scanned
    issued,    \* history: url -> codes returned by a Create that inserted
    lastStats, \* history: per code, the last GetStats [total, resolved] (at most one)
    prevStats, \* history: per code, the GetStats before it, when no pass, no fault between
    dirty,     \* history: handlers whose GetStats overlapped a pass step on its code
    zset,      \* Redis "ratelimit:<ip>" of one caller: the [score, member] entries of the sorted set
    zexp,      \* the time at which the key "ratelimit:<ip>" expires (empty: no expiry)
    mpc,       \* per middleware invocation: its next step
    mloc,      \* per middleware invocation: its limiter rl, its locals now and count, and
               \* err, whether a command of the pipeline it is in has failed
    mres,      \* per middleware invocation: what it answered
    admitLog,  \* history: the timestamps of the requests passed on to the handler
    admitBy,   \* history: the limiter instance that passed each of them on
    codec,     \* a run of encodeBase62, the padding loop and decodeBase62 on one id
    statsSeen, \* history: per handler, the largest totalClicks answered for its code before its running GetStats began
    nsync      \* the goroutine that calls SyncNow(): its step and the locals of its syncClickCounts

svars == <<spc, skeys, skey, scount, serr, stopCh, stopPc, stopSnap, final, dataLoss, passes>>
pvars == <<pc, req, existing, url, chkAt, err, resp, ops>>
hvars == <<incrs, missed, resolved, passStart, passClean, issued, lastStats, prevStats, dirty>>
rvars == <<zset, zexp, mpc, mloc, mres, admitLog, admitBy>>
vars == <<urls, nextId, cache, clicks, now, faults, scursor, svars, pvars, hvars, rvars, codec, statsSeen, nsync>>

MProcs == {"m1", "m2"}                 \* concurrent invocations of the rate limiter

\* what the middleware answered: the handler was called (c.Next) or the request
\* was aborted with a status; remaining is -1 when no header was set
\* the caller of SyncNow() before and after a call
NoSync ==
    [pc |-> "idle", cursor |-> AllCodes, keys |-> EmptyBag, key |-> <<>>, count |-> 0, err |-> "nil"]

NoDecision == [next |-> FALSE, status |-> 0, remaining |-> -1]

NoCodec == [step |-> "none", id |-> 0, code |-> <<>>, padded |-> <<>>, num |-> 0, numPadded |-> 0]

NoRequest == [kind |-> "none", url |-> "", expires_in |-> "", code |-> <<>>]
NoResponse ==
    [status |-> 0, error |-> "", short_code |-> <<>>, original_url |-> "", click_count |-> 0]

\* ---------------------------------------------------------------- model.URL
IsExpired(u, t) == \E e \in u.expires_at : t > e

IsValid(u, t) == u.is_active /\ ~IsExpired(u, t)

\* --------------------------------------------------------- durable store
\* mutant: the dedup lookup finds nothing
GetURLByHash_none(h) == {}

GetURLByHash(h) == {r \in urls : r.url_hash = h}

GetURLByShortCode(c) == {r \in urls : r.short_code = c}

\* mutant: url_hash is not declared UNIQUE
UniqueViolation_codeOnly(h, code) == \E r \in urls : r.short_code = code

\* the UNIQUE constraints of the urls table, for a row to insert
UniqueViolation(h, code) ==
    \E r \in urls : r.url_hash = h \/ r.short_code = code

NewRow(id, h, u, exp) ==
    [id |-> id, short_code |-> TempCode, url_hash |-> h, original_url |-> u,
     click_count |-> 0, expires_at |-> exp, is_active |-> TRUE]

UpdateShortCode(id, code) ==
    {IF r.id = id THEN [r EXCEPT !.short_code = code] ELSE r : r \in urls}

\* PostgresRepository.IncrementClickCount: UPDATE urls SET click_count =
\* click_count + 1 WHERE id = $1
PostgresIncrementClickCount(id) ==
    {IF r.id = id THEN [r EXCEPT !.click_count = @ + 1] ELSE r : r \in urls}

\* mutant: the batch update adds one click, like IncrementClickCount
IncrementClickCountBy_one(code, n) ==
    {IF r.short_code = code THEN [r EXCEPT !.click_count = @ + 1] ELSE r : r \in urls}

IncrementClickCountBy(code, n) ==
    {IF r.short_code = code THEN [r EXCEPT !.click_count = @ + n] ELSE r : r \in urls}

\* ------------------------------------------------------------- fast store
\* the entry under url:<code> that has not timed out
GetURL(c) == {e \in cache[c] : \A x \in e.exp : now < x}

\* GETEX with urlCacheTTL: the read refreshes the key's time to live
GetExRefresh(c) ==
    [cache EXCEPT ![c] = {[e EXCEPT !.exp = {now + urlCacheTTL}] : e \in GetURL(c)}]

\* SET key data ttl: a ttl of zero or less stores the key without a time to live
SetTTL(u) ==
    LET remaining == {e - now : e \in u.expires_at}
        ttl == IF \E r \in remaining : r < urlCacheTTL
               THEN CHOOSE r \in remaining : TRUE ELSE urlCacheTTL
    IN  IF ttl > 0 THEN {now + ttl} ELSE {}

SetURL(u) == [cache EXCEPT ![u.short_code] = {[data |-> u, exp |-> SetTTL(u)]}]

\* DEL url:<code>
DeleteURL(c) == [cache EXCEPT ![c] = {}]

\* INCR clicks:<code>
IncrementClickCount(c) == [clicks EXCEPT ![c] = @ + 1]

\* INCRBY clicks:<code> delta
RedisIncrementClickCountBy(c, delta) == [clicks EXCEPT ![c] = @ + delta]

\* GET clicks:<code>; an absent key reads 0
GetClickCount(c) == clicks[c]

\* mutant: GET without the delete
GetAndResetClickCount_keep(c) == clicks

\* GETDEL clicks:<code>: the counters after the call (the call returns GetClickCount)
GetAndResetClickCount(c) == [clicks EXCEPT ![c] = 0]

\* the keys an earlier page of the iteration returned and that SCAN may return
\* once more (an element can be returned several times while the table is
\* rehashed), as long as they exist
ScanAgain(keys) ==
    {k \in BagToSet(keys) : clicks[k] > 0 /\ CopiesIn(k, keys) < MaxScanReturns}

\* mutant: the scan finds no key
GetAllClickCountKeys_none(cursor, keys) == {[cursor |-> {}, keys |-> EmptyBag]}

\* SCAN clicks:* through the iterator: one SCAN command visits the part B of the
\* key space the cursor has not covered yet and returns the keys that exist in
\* it at that moment; the iterator appends them to the keys of earlier pages.
\* The result is the set of [cursor, keys] one command can leave.
GetAllClickCountKeys(cursor, keys) ==
    {[cursor |-> cursor \ B,
      keys |-> keys (+) SetToBag({c \in B : clicks[c] > 0} \cup D)] :
        B \in (SUBSET cursor) \ {{}}, D \in SUBSET ScanAgain(keys)}

\* ------------------------------------------------------------------- Init
StartAt(o, f, n, cd) ==
    /\ codec = cd
    /\ statsSeen = [p \in Procs |-> -1]
    /\ nsync = NoSync
    /\ ops = o
    /\ faults = f
    /\ passes = n
    /\ urls = {}
    /\ nextId = 1
    /\ cache = [c \in AllCodes |-> {}]
    /\ clicks = [c \in AllCodes |-> 0]
    /\ now = 0
    /\ pc = [p \in Procs |-> "idle"]
    /\ req = [p \in Procs |-> NoRequest]
    /\ existing = [p \in Procs |-> {}]
    /\ url = [p \in Procs |-> {}]
    /\ chkAt = [p \in Procs |-> 0]
    /\ err = [p \in Procs |-> "nil"]
    /\ resp = [p \in Procs |-> NoResponse]
    /\ spc = "idle"
    /\ scursor = AllCodes
    /\ skeys = EmptyBag
    /\ skey = <<>>
    /\ scount = 0
    /\ serr = "nil"
    /\ stopCh = FALSE
    /\ stopPc = "serving"
    /\ stopSnap = [total |-> [c \in AllCodes |-> 0], faults |-> 0]
    /\ final = FALSE
    /\ dataLoss = 0
    /\ incrs = [c \in AllCodes |-> 0]
    /\ missed = [p \in Procs |-> {}]
    /\ resolved = [c \in AllCodes |-> 0]
    /\ passStart = [c \in AllCodes |-> [pending |-> 0, durable |-> 0, row |-> FALSE]]
    /\ passClean = TRUE
    /\ issued = [u \in URLs |-> {}]
    /\ lastStats = [c \in AllCodes |-> {}]
    /\ prevStats = [c \in AllCodes |-> {}]
    /\ dirty = {}
    /\ zset = {}
    /\ zexp = {}
    /\ mpc = [p \in MProcs |-> "idle"]
    /\ mloc = [p \in MProcs |-> [now |-> 0, count |-> 0, rl |-> "general", err |-> FALSE]]
    /\ mres = [p \in MProcs |-> NoDecision]
    /\ admitLog = <<>>
    /\ admitBy = <<>>

Start(o, f, n) == StartAt(o, f, n, NoCodec)

\* ------------------------------------------------------------ I/O errors
\* A store call either succeeds (ok) or fails with an I/O error.
CanFail(ok) == ok \/ faults > 0

CountFault(ok) == faults' = IF ok THEN faults ELSE faults - 1

\* ------------------------------------------------------- handler responses
respondInternalError == [NoResponse EXCEPT !.status = 200, !.error = "internal_error"]

respondNotFound == [NoResponse EXCEPT !.status = 404, !.error = "not_found"]

respondExpired == [NoResponse EXCEPT !.status = 410, !.error = "expired"]

respondCreated(code, u) ==
    [NoResponse EXCEPT !.status = 201, !.short_code = code, !.original_url = u]

respondRedirect(u) == [NoResponse EXCEPT !.status = 301, !.original_url = u]

respondStats(code, u, n) ==
    [NoResponse EXCEPT !.status = 200, !.short_code = code, !.original_url = u,
                       !.click_count = n]

\* mutant: every service error is answered as an internal error
ErrorResponse_allInternal(e) == respondInternalError

\* Handler.Redirect / Handler.GetStats: the response for a service error
ErrorResponse(e) ==
    CASE e = "notfound" -> respondNotFound
      [] e = "expired" -> respondExpired
      [] OTHER -> respondInternalError

Return(p, e, r) ==
    /\ pc' = [pc EXCEPT ![p] = "done"]
    /\ err' = [err EXCEPT ![p] = e]
    /\ resp' = [resp EXCEPT ![p] = r]

Goto(p, label) ==
    /\ pc' = [pc EXCEPT ![p] = label]
    /\ UNCHANGED <<scursor, nsync, statsSeen, codec, rvars, err, resp>>

\* A request reaches a free handler goroutine.
\* the largest totalClicks a finished GetStats of code c has answered (-1: none)
MaxSeen(c) ==
    LET seen == {resp[q].click_count : q \in {x \in Procs :
                    /\ pc[x] = "done" /\ req[x].kind = "stats" /\ req[x].code = c
                    /\ resp[x].status = 200}}
    IN  IF seen = {} THEN -1 ELSE CHOOSE n \in seen : \A m \in seen : m <= n

Accept(p, r, label) ==
    /\ pc[p] \in {"idle", "done"}
    /\ ~stopCh
    /\ ops > 0
    /\ ops' = ops - 1
    /\ pc' = [pc EXCEPT ![p] = label]
    /\ req' = [req EXCEPT ![p] = r]
    /\ existing' = [existing EXCEPT ![p] = {}]
    /\ url' = [url EXCEPT ![p] = {}]
    /\ chkAt' = [chkAt EXCEPT ![p] = 0]
    /\ err' = [err EXCEPT ![p] = "nil"]
    /\ resp' = [resp EXCEPT ![p] = NoResponse]
    /\ dirty' = dirty \ {p}
    /\ missed' = [missed EXCEPT ![p] = {}]
    /\ statsSeen' = [statsSeen EXCEPT ![p] = IF r.kind = "stats" THEN MaxSeen(r.code) ELSE -1]
    /\ UNCHANGED <<scursor, nsync, codec, rvars, urls, nextId, cache, clicks, now, faults, svars, incrs, resolved,
                   passStart, passClean, issued, lastStats, prevStats>>

\* ------------------------------------------------------ CreateShortURL
\* request bodies the handler's validation refuses: no url, a url that does
\* not parse, one without scheme, one without host, and other schemes
BadURLs == {"", "%zz", "//a/x", "http://", "ftp://a", "mailto:x"}

\* url.Parse on the URLs of the model: err, Scheme (lower case) and Host
urlParse(u) ==
    CASE u = "http://a" -> [err |-> FALSE, Scheme |-> "http", Host |-> "a"]
      [] u = "http://b" -> [err |-> FALSE, Scheme |-> "http", Host |-> "b"]
      [] u = "//a/x" -> [err |-> FALSE, Scheme |-> "", Host |-> "a"]
      [] u = "http://" -> [err |-> FALSE, Scheme |-> "http", Host |-> ""]
      [] u = "ftp://a" -> [err |-> FALSE, Scheme |-> "ftp", Host |-> "a"]
      [] u = "mailto:x" -> [err |-> FALSE, Scheme |-> "mailto", Host |-> ""]
      [] u = "" -> [err |-> FALSE, Scheme |-> "", Host |-> ""]
      [] OTHER -> [err |-> TRUE, Scheme |-> "", Host |-> ""]

\* mutant: the scheme is not checked
ValidURL_anyScheme(u) ==
    LET parsed == urlParse(u)
    IN  u # "" /\ ~parsed.err /\ parsed.Scheme # "" /\ parsed.Host # ""

\* Handler.CreateShortURL: the binding (url required), url.Parse with scheme
\* and host, and the http/https switch
ValidURL(u) ==
    LET parsed == urlParse(u)
    IN  /\ u # ""
        /\ ~(parsed.err \/ parsed.Scheme = "" \/ parsed.Host = "")
        /\ parsed.Scheme \in {"http", "https"}

respondInvalidRequest == [NoResponse EXCEPT !.status = 400, !.error = "invalid_request"]

\* Handler.CreateShortURL with a body that fails the validation: 400
BeginCreateInvalid(p, u) ==
    /\ ~ValidURL(u)
    /\ pc[p] \in {"idle", "done"}
    /\ ~stopCh
    /\ ops > 0
    /\ ops' = ops - 1
    /\ req' = [req EXCEPT ![p] = [NoRequest EXCEPT !.kind = "create", !.url = u]]
    /\ existing' = [existing EXCEPT ![p] = {}]
    /\ url' = [url EXCEPT ![p] = {}]
    /\ chkAt' = [chkAt EXCEPT ![p] = 0]
    /\ Return(p, "invalid", respondInvalidRequest)
    /\ dirty' = dirty \ {p}
    /\ UNCHANGED <<scursor, nsync, statsSeen, codec, rvars, urls, nextId, cache, clicks, now, faults, svars, incrs, missed, resolved,
                   passStart, passClean, issued, lastStats, prevStats>>

BeginCreate(p, u, e) ==
    /\ ValidURL(u)
    /\ Accept(p, [NoRequest EXCEPT !.kind = "create", !.url = u, !.expires_in = e], "c_lookup")

\* GetURLByHash and the dedup decision
CreateLookup(p) ==
    /\ pc[p] = "c_lookup"
    /\ \E ok \in BOOLEAN :
        /\ CanFail(ok)
        /\ CountFault(ok)
        /\ LET found == GetURLByHash(hashURL(req[p].url))
           IN  IF ~ok
               THEN /\ Return(p, "io", respondInternalError)
                    /\ UNCHANGED <<existing, chkAt>>
               ELSE /\ existing' = [existing EXCEPT ![p] = found]
                    /\ chkAt' = [chkAt EXCEPT ![p] = now]
                    /\ IF \E x \in found : IsValid(x, now)
                       THEN LET x == CHOOSE x \in found : TRUE
                            IN  Return(p, "nil", respondCreated(x.short_code, x.original_url))
                       ELSE Goto(p, "c_insert")
    /\ UNCHANGED <<scursor, nsync, statsSeen, codec, rvars, urls, nextId, cache, clicks, now, svars, req, url, ops, hvars>>

\* parseDuration, time.Now().Add(duration) and the INSERT of CreateURL
CreateInsert(p) ==
    /\ pc[p] = "c_insert"
    /\ LET d == parseDuration(req[p].expires_in)
           expiresAt == IF req[p].expires_in = "" THEN {} ELSE {now + d.d}
           h == hashURL(req[p].url)
       IN  IF req[p].expires_in # "" /\ ~d.ok
           THEN /\ Return(p, "format", respondInternalError)
                /\ UNCHANGED <<urls, nextId, url, faults>>
           ELSE \E ok \in BOOLEAN :
                /\ CanFail(ok)
                /\ CountFault(ok)
                /\ nextId <= MaxId
                /\ IF ~ok
                   THEN /\ Return(p, "io", respondInternalError)
                        /\ UNCHANGED <<urls, nextId, url>>
                   ELSE IF UniqueViolation(h, TempCode)
                   THEN /\ Return(p, "unique", respondInternalError)
                        /\ nextId' = nextId + 1
                        /\ UNCHANGED <<urls, url>>
                   ELSE /\ urls' = urls \cup {NewRow(nextId, h, req[p].url, expiresAt)}
                        /\ nextId' = nextId + 1
                        /\ url' = [url EXCEPT ![p] =
                               {[NewRow(nextId, h, req[p].url, expiresAt) EXCEPT !.short_code = <<>>]}]
                        /\ Goto(p, "c_update")
    /\ UNCHANGED <<scursor, nsync, statsSeen, codec, rvars, cache, clicks, now, svars, req, existing, chkAt, ops, hvars>>

\* encodeBase62, the padding loop and UpdateShortCode
CreateUpdate(p) ==
    /\ pc[p] = "c_update"
    /\ \E ok \in BOOLEAN :
        /\ CanFail(ok)
        /\ CountFault(ok)
        /\ LET u == CHOOSE u \in url[p] : TRUE
               shortCode == padShortCode(encodeBase62(u.id))
           IN  IF ~ok
               THEN /\ Return(p, "io", respondInternalError)
                    /\ UNCHANGED <<urls, url>>
               ELSE /\ urls' = UpdateShortCode(u.id, shortCode)
                    /\ url' = [url EXCEPT ![p] = {[u EXCEPT !.short_code = shortCode]}]
                    /\ Goto(p, "c_cache")
    /\ UNCHANGED <<scursor, nsync, statsSeen, codec, rvars, nextId, cache, clicks, now, svars, req, existing, chkAt, ops, hvars>>

\* SetURL (best effort) and the response
CreateCache(p) ==
    /\ pc[p] = "c_cache"
    /\ \E ok \in BOOLEAN :
        /\ CanFail(ok)
        /\ CountFault(ok)
        /\ LET u == CHOOSE u \in url[p] : TRUE
           IN  /\ cache' = IF ok THEN SetURL(u) ELSE cache
               /\ Return(p, "nil", respondCreated(u.short_code, req[p].url))
               /\ issued' = [issued EXCEPT ![req[p].url] = @ \cup {u.short_code}]
    /\ UNCHANGED <<scursor, nsync, statsSeen, codec, rvars, urls, nextId, clicks, now, svars, req, existing, url, chkAt, ops,
                   incrs, missed, resolved, passStart, passClean, lastStats, prevStats, dirty>>


\* ------------------------------------------------------ GetOriginalURL
BeginResolve(p, c) == Accept(p, [NoRequest EXCEPT !.kind = "resolve", !.code = c], "r_cache")

\* redisRepo.GetURL (GETEX) and the check of a cached snapshot
ResolveCache(p) ==
    /\ pc[p] = "r_cache"
    /\ \E ok \in BOOLEAN :
        /\ CanFail(ok)
        /\ CountFault(ok)
        /\ LET c == req[p].code
               hit == IF ok THEN GetURL(c) ELSE {}
           IN  /\ cache' = IF ok THEN GetExRefresh(c) ELSE cache
               /\ IF hit = {}
                  THEN /\ Goto(p, "r_db")
                       /\ UNCHANGED <<url, chkAt>>
                  ELSE LET u == (CHOOSE e \in hit : TRUE).data
                       IN  /\ url' = [url EXCEPT ![p] = {u}]
                           /\ chkAt' = [chkAt EXCEPT ![p] = now]
                           /\ IF ~IsValid(u, now)
                              THEN Return(p, "expired", ErrorResponse("expired"))
                              ELSE Goto(p, "r_incr")
    /\ UNCHANGED <<scursor, nsync, statsSeen, codec, rvars, urls, nextId, clicks, now, svars, req, existing, ops, hvars>>

\* mutant: the click is counted as soon as the record is found, before the
\* validity check
ResolveStore_countFirst(p) ==
    /\ pc[p] = "r_db"
    /\ \E ok \in BOOLEAN :
        /\ CanFail(ok)
        /\ CountFault(ok)
        /\ LET found == GetURLByShortCode(req[p].code)
           IN  IF ~ok
               THEN /\ Return(p, "io", ErrorResponse("io"))
                    /\ UNCHANGED <<url, chkAt, clicks>>
               ELSE IF found = {}
               THEN /\ Return(p, "notfound", ErrorResponse("notfound"))
                    /\ UNCHANGED <<url, chkAt, clicks>>
               ELSE /\ url' = [url EXCEPT ![p] = found]
                    /\ chkAt' = [chkAt EXCEPT ![p] = now]
                    /\ clicks' = IncrementClickCount(req[p].code)
                    /\ IF \E u \in found : ~IsValid(u, now)
                       THEN Return(p, "expired", ErrorResponse("expired"))
                       ELSE Goto(p, "r_set")
    /\ UNCHANGED <<scursor, nsync, statsSeen, codec, rvars, urls, nextId, cache, now, svars, req, existing, ops, hvars>>

\* postgresRepo.GetURLByShortCode and the check of the record
ResolveStore(p) ==
    /\ pc[p] = "r_db"
    /\ \E ok \in BOOLEAN :
        /\ CanFail(ok)
        /\ CountFault(ok)
        /\ LET found == GetURLByShortCode(req[p].code)
           IN  IF ~ok
               THEN /\ Return(p, "io", ErrorResponse("io"))
                    /\ UNCHANGED <<url, chkAt>>
               ELSE IF found = {}
               THEN /\ Return(p, "notfound", ErrorResponse("notfound"))
                    /\ UNCHANGED <<url, chkAt>>
               ELSE /\ url' = [url EXCEPT ![p] = found]
                    /\ chkAt' = [chkAt EXCEPT ![p] = now]
                    /\ IF \E u \in found : ~IsValid(u, now)
                       THEN Return(p, "expired", ErrorResponse("expired"))
                       ELSE Goto(p, "r_set")
    /\ UNCHANGED <<scursor, nsync, statsSeen, codec, rvars, urls, nextId, cache, clicks, now, svars, req, existing, ops, hvars>>

\* mutant: a failed SetURL is returned to the caller
ResolveSet_propagate(p) ==
    /\ pc[p] = "r_set"
    /\ \E ok \in BOOLEAN :
        /\ CanFail(ok)
        /\ CountFault(ok)
        /\ cache' = IF ok THEN SetURL(CHOOSE u \in url[p] : TRUE) ELSE cache
        /\ IF ok THEN Goto(p, "r_incr") ELSE Return(p, "io", ErrorResponse("io"))
    /\ UNCHANGED <<scursor, nsync, statsSeen, codec, rvars, urls, nextId, clicks, now, svars, req, existing, url, chkAt, ops, hvars>>

\* redisRepo.SetURL after a read from the durable store (best effort)
ResolveSet(p) ==
    /\ pc[p] = "r_set"
    /\ \E ok \in BOOLEAN :
        /\ CanFail(ok)
        /\ CountFault(ok)
        /\ cache' = IF ok THEN SetURL(CHOOSE u \in url[p] : TRUE) ELSE cache
        /\ Goto(p, "r_incr")
    /\ UNCHANGED <<scursor, nsync, statsSeen, codec, rvars, urls, nextId, clicks, now, svars, req, existing, url, chkAt, ops, hvars>>

\* mutant: the resolve also runs click_count = click_count + 1 on its record
ResolveIncr_durable(p) ==
    /\ pc[p] = "r_incr"
    /\ \E ok \in BOOLEAN :
        /\ CanFail(ok)
        /\ CountFault(ok)
        /\ LET c == req[p].code
           IN  /\ clicks' = IF ok THEN IncrementClickCount(c) ELSE clicks
               /\ incrs' = IF ok THEN [incrs EXCEPT ![c] = @ + 1] ELSE incrs
               /\ resolved' = [resolved EXCEPT ![c] = @ + 1]
               /\ passClean' = (passClean /\ ~ok)
               /\ lastStats' = IF ok THEN lastStats ELSE [lastStats EXCEPT ![c] = {}]
               /\ prevStats' = IF ok THEN prevStats ELSE [prevStats EXCEPT ![c] = {}]
        /\ urls' = {IF \E u \in url[p] : u.id = r.id
                    THEN [r EXCEPT !.click_count = @ + 1] ELSE r : r \in urls}
        /\ Return(p, "nil", respondRedirect((CHOOSE u \in url[p] : TRUE).original_url))
    /\ UNCHANGED <<scursor, nsync, statsSeen, codec, rvars, nextId, cache, now, svars, req, existing, url, chkAt, ops,
                   passStart, issued, dirty, missed>>

\* incrementClickCount (INCR, best effort) and the redirect
ResolveIncr(p) ==
    /\ pc[p] = "r_incr"
    /\ \E ok \in BOOLEAN :
        /\ CanFail(ok)
        /\ CountFault(ok)
        /\ LET c == req[p].code
           IN  /\ clicks' = IF ok THEN IncrementClickCount(c) ELSE clicks
               /\ incrs' = IF ok THEN [incrs EXCEPT ![c] = @ + 1] ELSE incrs
               /\ resolved' = [resolved EXCEPT ![c] = @ + 1]
               /\ passClean' = (passClean /\ ~ok)
               /\ lastStats' = IF ok THEN lastStats ELSE [lastStats EXCEPT ![c] = {}]
               /\ prevStats' = IF ok THEN prevStats ELSE [prevStats EXCEPT ![c] = {}]
        /\ Return(p, "nil", respondRedirect((CHOOSE u \in url[p] : TRUE).original_url))
    /\ UNCHANGED <<scursor, nsync, statsSeen, codec, rvars, urls, nextId, cache, now, svars, req, existing, url, chkAt, ops,
                   passStart, issued, dirty, missed>>

\* --------------------------------------------------------- GetURLStats
\* mutant: the durable count alone
TotalClicks_durableOnly(u, pendingClicks) == u.click_count

\* ClickCount of the response: url.ClickCount + pendingClicks
TotalClicks(u, pendingClicks) == u.click_count + pendingClicks

\* mutant: the failed read yields the counter all the same
ReadPending_anyway(ok, c) == GetClickCount(c)

\* pendingClicks: GetClickCount returns 0 together with an error
ReadPending(ok, c) == IF ok THEN GetClickCount(c) ELSE 0

BeginStats(p, c) == Accept(p, [NoRequest EXCEPT !.kind = "stats", !.code = c], "s_db")

\* postgresRepo.GetURLStats
StatsStore(p) ==
    /\ pc[p] = "s_db"
    /\ \E ok \in BOOLEAN :
        /\ CanFail(ok)
        /\ CountFault(ok)
        /\ LET found == GetURLByShortCode(req[p].code)
           IN  IF ~ok
               THEN /\ Return(p, "io", ErrorResponse("io"))
                    /\ UNCHANGED url
               ELSE IF found = {}
               THEN /\ Return(p, "notfound", ErrorResponse("notfound"))
                    /\ UNCHANGED url
               ELSE /\ url' = [url EXCEPT ![p] = found]
                    /\ Goto(p, "s_redis")
    /\ statsSeen' = IF pc'[p] = "done" THEN [statsSeen EXCEPT ![p] = -1] ELSE statsSeen
    /\ UNCHANGED <<scursor, nsync, codec, rvars, urls, nextId, cache, clicks, now, svars, req, existing, chkAt, ops, hvars>>

\* redisRepo.GetClickCount (a failed read counts as 0) and the response
StatsPending(p) ==
    /\ pc[p] = "s_redis"
    /\ \E ok \in BOOLEAN :
        /\ CanFail(ok)
        /\ CountFault(ok)
        /\ LET c == req[p].code
               u == CHOOSE u \in url[p] : TRUE
               pendingClicks == ReadPending(ok, c)
               total == TotalClicks(u, pendingClicks)
               keep == ok /\ p \notin dirty
           IN  /\ Return(p, "nil", respondStats(u.short_code, u.original_url, total))
               /\ lastStats' = [lastStats EXCEPT ![c] =
                      IF keep THEN {[total |-> total, resolved |-> resolved[c]]} ELSE {}]
               /\ prevStats' = [prevStats EXCEPT ![c] = IF keep THEN lastStats[c] ELSE {}]
               /\ missed' = [missed EXCEPT ![p] = IF ok THEN {} ELSE {GetClickCount(c)}]
    /\ statsSeen' = [statsSeen EXCEPT ![p] = -1]
    /\ UNCHANGED <<scursor, nsync, codec, rvars, urls, nextId, cache, clicks, now, svars, req, existing, url, chkAt, ops,
                   incrs, resolved, passStart, passClean, issued, dirty>>

\* ------------------------------------------------- ClickSyncScheduler
\* what a pass step on short code c does to the history of GetStats
PassTouches(c) ==
    /\ lastStats' = [lastStats EXCEPT ![c] = {}]
    /\ prevStats' = [prevStats EXCEPT ![c] = {}]
    /\ dirty' = dirty \cup {p \in Procs : pc[p] = "s_redis" /\ req[p].code = c}

Durable(c) == IF \E r \in urls : r.short_code = c
              THEN (CHOOSE r \in urls : r.short_code = c).click_count ELSE 0

\* mutant: the drained count is not put back
restoreClickCount_skip(c, count) == clicks

restoreClickCount(c, count) == RedisIncrementClickCountBy(c, count)

\* the count the pass has drained for c and neither applied nor restored yet
InFlight(c) == IF spc \in {"apply", "restore"} /\ skey = c THEN scount ELSE 0

\* run(): the ticker fires
TickerFires ==
    /\ spc = "idle"
    /\ passes > 0
    /\ passes' = passes - 1
    /\ spc' = "scan"
    /\ final' = FALSE
    /\ UNCHANGED <<scursor, nsync, statsSeen, codec, rvars, urls, nextId, cache, clicks, now, faults, pvars, hvars,
                   skeys, skey, scount, serr, stopCh, stopPc, stopSnap, dataLoss>>

\* run(): the ticker fires, as often as the process runs
TickerCase ==
    /\ spc = "idle"
    /\ spc' = "scan"
    /\ final' = FALSE
    /\ UNCHANGED <<scursor, nsync, statsSeen, codec, rvars, urls, nextId, cache, clicks, now, faults, pvars, hvars,
                   skeys, skey, scount, serr, stopCh, stopPc, stopSnap, dataLoss, passes>>

\* Stop(): main's deferred call closes stopCh once the HTTP server has shut down
Stop ==
    /\ ~stopCh
    /\ \A p \in Procs : pc[p] \in {"idle", "done"}
    /\ stopCh' = TRUE
    /\ stopPc' = "waiting"
    /\ stopSnap' = [total |-> [c \in AllCodes |-> Durable(c) + clicks[c] + InFlight(c)],
                    faults |-> faults]
    /\ UNCHANGED <<scursor, nsync, statsSeen, codec, rvars, urls, nextId, cache, clicks, now, faults, pvars, hvars,
                   spc, skeys, skey, scount, serr, final, dataLoss, passes>>

\* mutant: Stop() returns without waiting for run()
StopReturn_noWait ==
    /\ stopPc = "waiting"
    /\ stopPc' = "returned"
    /\ UNCHANGED <<scursor, nsync, statsSeen, codec, rvars, urls, nextId, cache, clicks, now, faults, pvars, hvars,
                   spc, skeys, skey, scount, serr, stopCh, stopSnap, final, dataLoss, passes>>

\* Stop(): wg.Wait() returns once run() has returned
StopReturn ==
    /\ stopPc = "waiting"
    /\ spc = "stopped"
    /\ stopPc' = "returned"
    /\ UNCHANGED <<scursor, nsync, statsSeen, codec, rvars, urls, nextId, cache, clicks, now, faults, pvars, hvars,
                   spc, skeys, skey, scount, serr, stopCh, stopSnap, final, dataLoss, passes>>

\* mutant: run() returns on the stop signal without the final pass
StopCase_noFinalPass ==
    /\ spc = "idle"
    /\ stopCh
    /\ spc' = "stopped"
    /\ final' = TRUE
    /\ UNCHANGED <<scursor, nsync, statsSeen, codec, rvars, urls, nextId, cache, clicks, now, faults, pvars, hvars,
                   skeys, skey, scount, serr, stopCh, stopPc, stopSnap, dataLoss, passes>>

\* run(): the stop case of the select starts the final pass
StopCase ==
    /\ spc = "idle"
    /\ stopCh
    /\ spc' = "scan"
    /\ final' = TRUE
    /\ UNCHANGED <<scursor, nsync, statsSeen, codec, rvars, urls, nextId, cache, clicks, now, faults, pvars, hvars,
                   skeys, skey, scount, serr, stopCh, stopPc, stopSnap, dataLoss, passes>>

\* syncClickCounts: GetAllClickCountKeys, one SCAN command of the iteration; an
\* error of a command ends the pass, the last page starts the loop over the keys
Scan ==
    /\ spc = "scan"
    /\ \E ok \in BOOLEAN : \E page \in GetAllClickCountKeys(scursor, skeys) :
        /\ CanFail(ok)
        /\ CountFault(ok)
        /\ skeys' = IF ok THEN page.keys ELSE EmptyBag
        /\ scursor' = IF ok /\ page.cursor # {} THEN page.cursor ELSE AllCodes
        /\ spc' = IF ok /\ page.cursor # {} THEN "scan" ELSE "loop"
        /\ passClean' = IF scursor = AllCodes THEN ok ELSE (passClean /\ ok)
    /\ passStart' = IF scursor = AllCodes
                    THEN [c \in AllCodes |->
                             [pending |-> clicks[c], durable |-> Durable(c),
                              row |-> (\E r \in urls : r.short_code = c)]]
                    ELSE passStart
    /\ UNCHANGED <<nsync, statsSeen, codec, rvars, urls, nextId, cache, clicks, now, pvars, skey, scount, serr, stopCh, stopPc, stopSnap,
                   final, dataLoss, passes, incrs, missed, resolved, issued, lastStats,
                   prevStats, dirty>>

\* syncClickCounts: the next key and GetAndResetClickCount (GETDEL)
Drain ==
    /\ spc = "loop"
    /\ \E k \in BagToSet(skeys) : \E ok \in BOOLEAN :
        /\ CanFail(ok)
        /\ CountFault(ok)
        /\ skeys' = skeys (-) SetToBag({k})
        /\ skey' = k
        /\ clicks' = IF ok THEN GetAndResetClickCount(k) ELSE clicks
        /\ scount' = IF ok THEN GetClickCount(k) ELSE 0
        /\ serr' = IF ok THEN "nil" ELSE "io"
        /\ passClean' = (passClean /\ ok)
        /\ spc' = IF ok /\ GetClickCount(k) # 0 THEN "apply" ELSE "loop"
        /\ PassTouches(k)
    /\ UNCHANGED <<scursor, nsync, statsSeen, codec, rvars, urls, nextId, cache, now, pvars, stopCh, stopPc, stopSnap, final, dataLoss, passes,
                   incrs, missed, resolved, passStart, issued>>

\* syncClickCounts: postgresRepo.IncrementClickCountBy
Apply ==
    /\ spc = "apply"
    /\ \E ok \in BOOLEAN :
        /\ CanFail(ok)
        /\ CountFault(ok)
        /\ LET e == IF ~ok THEN "io"
                    ELSE IF GetURLByShortCode(skey) = {} THEN "notfound" ELSE "nil"
           IN  /\ serr' = e
               /\ urls' = IF e = "nil" THEN IncrementClickCountBy(skey, scount) ELSE urls
               /\ passClean' = (passClean /\ e = "nil")
               /\ spc' = IF e = "nil" THEN "loop" ELSE "restore"
    /\ PassTouches(skey)
    /\ UNCHANGED <<scursor, nsync, statsSeen, codec, rvars, nextId, cache, clicks, now, pvars, skeys, skey, scount, stopCh, stopPc, stopSnap, final, dataLoss,
                   passes, incrs, missed, resolved, passStart, issued>>

\* syncClickCounts: restoreClickCount (INCRBY) after a failed apply
Restore ==
    /\ spc = "restore"
    /\ \E ok \in BOOLEAN :
        /\ CanFail(ok)
        /\ CountFault(ok)
        /\ clicks' = IF ok THEN restoreClickCount(skey, scount) ELSE clicks
        /\ dataLoss' = IF ok THEN dataLoss ELSE dataLoss + scount
    /\ spc' = "loop"
    /\ PassTouches(skey)
    /\ UNCHANGED <<scursor, nsync, statsSeen, codec, rvars, urls, nextId, cache, now, pvars, skeys, skey, scount, serr, stopCh, stopPc, stopSnap, final, passes,
                   incrs, missed, resolved, passStart, passClean, issued>>

\* syncClickCounts returns; run() waits again, or returns after the final pass
Finish ==
    /\ spc = "loop"
    /\ skeys = EmptyBag
    /\ spc' = IF final THEN "stopped" ELSE "idle"
    /\ skey' = <<>>
    /\ scount' = 0
    /\ serr' = "nil"
    /\ UNCHANGED <<scursor, nsync, statsSeen, codec, rvars, urls, nextId, cache, clicks, now, faults, pvars, hvars,
                   skeys, stopCh, stopPc, stopSnap, final, dataLoss, passes>>

\* ------------------------------------------------------------- SyncNow
\* the count the on-demand pass has drained for c and neither applied nor
\* restored yet
NowInFlight(c) == IF nsync.pc \in {"apply", "restore"} /\ nsync.key = c THEN nsync.count ELSE 0

\* SyncNow(): syncClickCounts is called on the caller's goroutine
SyncNow ==
    /\ nsync.pc = "idle"
    /\ passes > 0
    /\ passes' = passes - 1
    /\ nsync' = [NoSync EXCEPT !.pc = "scan"]
    /\ UNCHANGED <<scursor, statsSeen, codec, rvars, urls, nextId, cache, clicks, now, faults, pvars, hvars,
                   spc, skeys, skey, scount, serr, stopCh, stopPc, stopSnap, final, dataLoss>>

\* SyncNow's syncClickCounts: GetAllClickCountKeys, one SCAN command of the
\* iteration
NowScan ==
    /\ nsync.pc = "scan"
    /\ \E ok \in BOOLEAN : \E page \in GetAllClickCountKeys(nsync.cursor, nsync.keys) :
        /\ CanFail(ok)
        /\ CountFault(ok)
        /\ nsync' = [nsync EXCEPT
                         !.pc = IF ok /\ page.cursor # {} THEN "scan" ELSE "loop",
                         !.cursor = IF ok /\ page.cursor # {} THEN page.cursor ELSE AllCodes,
                         !.keys = IF ok THEN page.keys ELSE EmptyBag]
    /\ UNCHANGED <<scursor, statsSeen, codec, rvars, urls, nextId, cache, clicks, now, pvars, hvars, svars>>

\* SyncNow's syncClickCounts: the next key and GetAndResetClickCount (GETDEL)
NowDrain ==
    /\ nsync.pc = "loop"
    /\ \E k \in BagToSet(nsync.keys) : \E ok \in BOOLEAN :
        /\ CanFail(ok)
        /\ CountFault(ok)
        /\ clicks' = IF ok THEN GetAndResetClickCount(k) ELSE clicks
        /\ nsync' = [nsync EXCEPT !.keys = @ (-) SetToBag({k}), !.key = k,
                                  !.count = IF ok THEN GetClickCount(k) ELSE 0,
                                  !.err = IF ok THEN "nil" ELSE "io",
                                  !.pc = IF ok /\ GetClickCount(k) # 0 THEN "apply" ELSE "loop"]
        /\ PassTouches(k)
    /\ passClean' = FALSE
    /\ UNCHANGED <<scursor, statsSeen, codec, rvars, urls, nextId, cache, now, pvars, svars,
                   incrs, missed, resolved, passStart, issued>>

\* SyncNow's syncClickCounts: postgresRepo.IncrementClickCountBy
NowApply ==
    /\ nsync.pc = "apply"
    /\ \E ok \in BOOLEAN :
        /\ CanFail(ok)
        /\ CountFault(ok)
        /\ LET e == IF ~ok THEN "io"
                    ELSE IF GetURLByShortCode(nsync.key) = {} THEN "notfound" ELSE "nil"
           IN  /\ urls' = IF e = "nil" THEN IncrementClickCountBy(nsync.key, nsync.count)
                          ELSE urls
               /\ nsync' = [nsync EXCEPT !.err = e,
                                         !.pc = IF e = "nil" THEN "loop" ELSE "restore"]
    /\ PassTouches(nsync.key)
    /\ passClean' = FALSE
    /\ UNCHANGED <<scursor, statsSeen, codec, rvars, nextId, cache, clicks, now, pvars, svars,
                   incrs, missed, resolved, passStart, issued>>

\* SyncNow's syncClickCounts: restoreClickCount (INCRBY) after a failed apply
NowRestore ==
    /\ nsync.pc = "restore"
    /\ \E ok \in BOOLEAN :
        /\ CanFail(ok)
        /\ CountFault(ok)
        /\ clicks' = IF ok THEN restoreClickCount(nsync.key, nsync.count) ELSE clicks
        /\ dataLoss' = IF ok THEN dataLoss ELSE dataLoss + nsync.count
    /\ nsync' = [nsync EXCEPT !.pc = "loop"]
    /\ PassTouches(nsync.key)
    /\ passClean' = FALSE
    /\ UNCHANGED <<scursor, statsSeen, codec, rvars, urls, nextId, cache, now, pvars,
                   spc, skeys, skey, scount, serr, stopCh, stopPc, stopSnap, final, passes,
                   incrs, missed, resolved, passStart, issued>>

\* SyncNow's syncClickCounts returns
NowFinish ==
    /\ nsync.pc = "loop"
    /\ nsync.keys = EmptyBag
    /\ nsync' = NoSync
    /\ UNCHANGED <<scursor, statsSeen, codec, rvars, urls, nextId, cache, clicks, now, faults, pvars, hvars,
                   svars>>

\* ------------------------------------------- repository calls without a caller
\* RedisRepository.DeleteURL and PostgresRepository.IncrementClickCount are
\* exported and no handler, service or scheduler calls them; a caller outside
\* the service runs them as one store call each.
DeleteURLCall(c) ==
    /\ ops > 0
    /\ ops' = ops - 1
    /\ \E ok \in BOOLEAN :
        /\ CanFail(ok)
        /\ CountFault(ok)
        /\ cache' = IF ok THEN DeleteURL(c) ELSE cache
    /\ UNCHANGED <<scursor, nsync, statsSeen, codec, rvars, urls, nextId, clicks, now, svars,
                   pc, req, existing, url, chkAt, err, resp, hvars>>

IncrementClickCountCall(id) ==
    /\ ops > 0
    /\ ops' = ops - 1
    /\ \E ok \in BOOLEAN :
        /\ CanFail(ok)
        /\ CountFault(ok)
        /\ urls' = IF ok THEN PostgresIncrementClickCount(id) ELSE urls
    /\ UNCHANGED <<scursor, nsync, statsSeen, codec, rvars, nextId, cache, clicks, now, svars,
                   pc, req, existing, url, chkAt, err, resp, hvars>>

RepositoryCalls ==
    \/ \E c \in AllCodes : DeleteURLCall(c)
    \/ \E id \in Ids : IncrementClickCountCall(id)

\* ------------------------------------------------------ RateLimiter
\* the members of the sorted set while the key has not expired
ZMembers == IF \E x \in zexp : now >= x THEN {} ELSE zset

\* mutant: the prune removes nothing
ZRemRangeByScore_keepAll(members, windowStart) == members

\* float64(n) for an int64 of the magnitude of time.Now().UnixNano(): the
\* nearest multiple of the spacing Ulp, a tie going to the even multiple.
\* Redis reads the bounds of a score range as doubles in the same way.
float64(n) ==
    LET q == n \div Ulp
        r == n % Ulp
    IN  IF 2 * r < Ulp THEN q * Ulp
        ELSE IF 2 * r > Ulp THEN (q + 1) * Ulp
        ELSE IF q % 2 = 0 THEN q * Ulp ELSE (q + 1) * Ulp

\* mutant: the range ends before windowStart ("(windowStart")
ZRemRangeByScore_exclusive(members, windowStart) ==
    {e \in members : ~(0 <= e.score /\ e.score < float64(windowStart))}

\* ZREMRANGEBYSCORE key 0 windowStart: the entries whose score lies between 0
\* and the double read from the text of windowStart are removed
ZRemRangeByScore(members, windowStart) ==
    {e \in members : ~(0 <= e.score /\ e.score <= float64(windowStart))}

\* ZCARD key
ZCard(members) == Cardinality(members)

\* ZADD key score member with redis.Z{Score: float64(now), Member: now}: an
\* entry with the same member is replaced
ZAdd(members, t) ==
    {e \in members : e.member # t} \cup {[score |-> float64(t), member |-> t]}

\* the limiter instances main builds on the one Redis client
Limiters == {"general", "strict"}

\* rl.requests
Requests(rl) == IF rl = "strict" THEN StrictRateLimit ELSE RateLimit

\* rl.duration
Duration(rl) == RateWindow

\* remaining := rl.requests - int(count) - 1, floored at 0
RemainingFor(requests, count) == IF requests - count - 1 < 0 THEN 0 ELSE requests - count - 1

\* X-RateLimit-Remaining of a request admitted by the general limiter
Remaining(count) == RemainingFor(RateLimit, count)

\* mutant: a failed precheck aborts the request
FailOpen_abort == [next |-> FALSE, status |-> 500, remaining |-> -1]

\* a failed precheck: c.Next() without headers
FailOpen == [NoDecision EXCEPT !.next = TRUE]

\* Middleware of the limiter instance rl: time.Now() and the window start
BeginCheckOn(p, rl) ==
    /\ mpc[p] \in {"idle", "done"}
    /\ ops > 0
    /\ ops' = ops - 1
    /\ mpc' = [mpc EXCEPT ![p] = "prune"]
    /\ mloc' = [mloc EXCEPT ![p] = [now |-> now, count |-> 0, rl |-> rl, err |-> FALSE]]
    /\ mres' = [mres EXCEPT ![p] = NoDecision]
    /\ UNCHANGED <<scursor, nsync, statsSeen, codec, urls, nextId, cache, clicks, now, faults, svars, pc, req, existing, url,
                   chkAt, err, resp, hvars, zset, zexp, admitLog, admitBy>>

\* Middleware of the general limiter
BeginCheck(p) == BeginCheckOn(p, "general")

\* Middleware: ZREMRANGEBYSCORE, the first command of the prune-and-count
\* pipeline.  The pipeline is not a transaction: the commands of other
\* requests and the expiry of the key can fall between its two commands, and a
\* command that fails may have been applied.
Prune(p) ==
    /\ mpc[p] = "prune"
    /\ \E ok \in BOOLEAN, applied \in BOOLEAN :
        /\ CanFail(ok)
        /\ CountFault(ok)
        /\ ok => applied
        /\ LET windowStart == mloc[p].now - Duration(mloc[p].rl)
               kept == ZRemRangeByScore(ZMembers, windowStart)
           IN  /\ zset' = IF applied THEN kept ELSE ZMembers
               /\ zexp' = IF zset' = {} THEN {} ELSE zexp
        /\ mloc' = [mloc EXCEPT ![p].err = ~ok]
    /\ mpc' = [mpc EXCEPT ![p] = "precheck"]
    /\ UNCHANGED <<mres, admitLog, admitBy>>
    /\ UNCHANGED <<scursor, nsync, statsSeen, codec, urls, nextId, cache, clicks, now, svars, pvars, hvars>>

\* mutant: a rejected request is recorded like an admitted one
Precheck_recordRejected(p) ==
    /\ mpc[p] = "precheck"
    /\ \E ok \in BOOLEAN :
        /\ CanFail(ok)
        /\ CountFault(ok)
        /\ LET count == ZCard(ZMembers)
               failed == mloc[p].err \/ ~ok
               rejected == ~failed /\ count >= Requests(mloc[p].rl)
           IN  /\ zset' = IF rejected THEN ZAdd(ZMembers, mloc[p].now) ELSE ZMembers
               /\ zexp' = IF rejected THEN {now + Duration(mloc[p].rl)}
                          ELSE IF ZMembers = {} THEN {} ELSE zexp
               /\ IF failed
                  THEN /\ mpc' = [mpc EXCEPT ![p] = "done"]
                       /\ mres' = [mres EXCEPT ![p] = [NoDecision EXCEPT !.next = TRUE]]
                       /\ admitLog' = Append(admitLog, mloc[p].now) /\ admitBy' = Append(admitBy, mloc[p].rl)
                       /\ mloc' = [mloc EXCEPT ![p].err = TRUE]
                  ELSE IF rejected
                  THEN /\ mpc' = [mpc EXCEPT ![p] = "done"]
                       /\ mres' = [mres EXCEPT ![p] =
                              [next |-> FALSE, status |-> 429, remaining |-> 0]]
                       /\ mloc' = [mloc EXCEPT ![p].count = count]
                       /\ UNCHANGED <<admitLog, admitBy>>
                  ELSE /\ mpc' = [mpc EXCEPT ![p] = "record"]
                       /\ mloc' = [mloc EXCEPT ![p].count = count]
                       /\ UNCHANGED <<mres, admitLog, admitBy>>
    /\ UNCHANGED <<scursor, nsync, statsSeen, codec, urls, nextId, cache, clicks, now, svars, pvars, hvars>>

\* Middleware: ZCARD, the second command of the prune-and-count pipeline, the
\* return of Exec with the first error of the two commands, and the decision.
\* The count is the size of the set when ZCARD runs.
Precheck(p) ==
    /\ mpc[p] = "precheck"
    /\ \E ok \in BOOLEAN :
        /\ CanFail(ok)
        /\ CountFault(ok)
        /\ LET count == ZCard(ZMembers)
               failed == mloc[p].err \/ ~ok
           IN  /\ zset' = ZMembers
               /\ zexp' = IF ZMembers = {} THEN {} ELSE zexp
               /\ IF failed
                  THEN /\ mpc' = [mpc EXCEPT ![p] = "done"]
                       /\ mres' = [mres EXCEPT ![p] = FailOpen]
                       /\ admitLog' = Append(admitLog, mloc[p].now) /\ admitBy' = Append(admitBy, mloc[p].rl)
                       /\ mloc' = [mloc EXCEPT ![p].err = TRUE]
                  ELSE IF count >= Requests(mloc[p].rl)
                  THEN /\ mpc' = [mpc EXCEPT ![p] = "done"]
                       /\ mres' = [mres EXCEPT ![p] =
                              [next |-> FALSE, status |-> 429, remaining |-> 0]]
                       /\ mloc' = [mloc EXCEPT ![p].count = count]
                       /\ UNCHANGED <<admitLog, admitBy>>
                  ELSE /\ mpc' = [mpc EXCEPT ![p] = "record"]
                       /\ mloc' = [mloc EXCEPT ![p].count = count]
                       /\ UNCHANGED <<mres, admitLog, admitBy>>
    /\ UNCHANGED <<scursor, nsync, statsSeen, codec, urls, nextId, cache, clicks, now, svars, pvars, hvars>>

\* Middleware: ZADD, the first command of the record pipeline.  A ZADD on a key
\* that is gone creates it without a time to live.
Record(p) ==
    /\ mpc[p] = "record"
    /\ \E ok \in BOOLEAN, applied \in BOOLEAN :
        /\ CanFail(ok)
        /\ CountFault(ok)
        /\ ok => applied
        /\ zset' = IF applied THEN ZAdd(ZMembers, mloc[p].now) ELSE ZMembers
        /\ zexp' = IF ZMembers = {} THEN {} ELSE zexp
        /\ mloc' = [mloc EXCEPT ![p].err = ~ok]
    /\ mpc' = [mpc EXCEPT ![p] = "expire"]
    /\ UNCHANGED <<mres, admitLog, admitBy>>
    /\ UNCHANGED <<scursor, nsync, statsSeen, codec, urls, nextId, cache, clicks, now, svars, pvars, hvars>>

\* Middleware: EXPIRE, the second command of the record pipeline (it does
\* nothing on a key that is gone), the return of Exec (an error is only
\* logged), the headers and c.Next().
Expire(p) ==
    /\ mpc[p] = "expire"
    /\ \E ok \in BOOLEAN, applied \in BOOLEAN :
        /\ CanFail(ok)
        /\ CountFault(ok)
        /\ ok => applied
        /\ zset' = ZMembers
        /\ zexp' = IF ZMembers = {} THEN {}
                   ELSE IF applied THEN {now + Duration(mloc[p].rl)} ELSE zexp
        /\ mloc' = [mloc EXCEPT ![p].err = mloc[p].err \/ ~ok]
    /\ mpc' = [mpc EXCEPT ![p] = "done"]
    /\ mres' = [mres EXCEPT ![p] =
           [next |-> TRUE, status |-> 0, remaining |-> RemainingFor(Requests(mloc[p].rl), mloc[p].count)]]
    /\ admitLog' = Append(admitLog, mloc[p].now) /\ admitBy' = Append(admitBy, mloc[p].rl)
    /\ UNCHANGED <<scursor, nsync, statsSeen, codec, urls, nextId, cache, clicks, now, svars, pvars, hvars>>

\* ------------------------------------------------- short code round trip
\* encodeBase62(id)
Encode ==
    /\ codec.step = "encode"
    /\ codec' = [codec EXCEPT !.step = "pad", !.code = CodeString(encodeBase62(codec.id))]
    /\ UNCHANGED <<scursor, nsync, statsSeen, urls, nextId, cache, clicks, now, faults, svars, pvars, hvars, rvars>>

\* the padding loop of CreateShortURL
Pad ==
    /\ codec.step = "pad"
    /\ codec' = [codec EXCEPT !.step = "decode",
                              !.padded = CodeString(padShortCode(encodeBase62(codec.id)))]
    /\ UNCHANGED <<scursor, nsync, statsSeen, urls, nextId, cache, clicks, now, faults, svars, pvars, hvars, rvars>>

\* decodeBase62 of the code and of the padded code
Decode ==
    /\ codec.step = "decode"
    /\ codec' = [codec EXCEPT !.step = "done",
                              !.num = decodeBase62(codec.code),
                              !.numPadded = decodeBase62(codec.padded)]
    /\ UNCHANGED <<scursor, nsync, statsSeen, urls, nextId, cache, clicks, now, faults, svars, pvars, hvars, rvars>>

\* ------------------------------------------------------------------ clock
\* the clock advances, up to max
Advance(max) ==
    /\ now < max
    /\ now' = now + 1
    /\ UNCHANGED <<scursor, nsync, statsSeen, codec, urls, nextId, cache, clicks, faults, svars, pvars, hvars, rvars>>

Tick ==
    /\ now < MaxTime
    /\ now' = now + 1
    /\ UNCHANGED <<scursor, nsync, statsSeen, codec, rvars, urls, nextId, cache, clicks, faults, svars, pvars, hvars>>

\* ------------------------------------------------------------------- Next
Creates(P, U, E) == \E p \in P, u \in U, e \in E : BeginCreate(p, u, e)

Resolves(P, C) == \E p \in P, c \in C : BeginResolve(p, c)

StatsCalls(P, C) == \E p \in P, c \in C : BeginStats(p, c)

CreateSteps ==
    \E p \in Procs : CreateLookup(p) \/ CreateInsert(p) \/ CreateUpdate(p) \/ CreateCache(p)

ResolveSteps ==
    \E p \in Procs : ResolveCache(p) \/ ResolveStore(p) \/ ResolveSet(p) \/ ResolveIncr(p)

StatsSteps == \E p \in Procs : StatsStore(p) \/ StatsPending(p)

Pass == TickerFires \/ Scan \/ Drain \/ Apply \/ Restore \/ Finish

NowPass == SyncNow \/ NowScan \/ NowDrain \/ NowApply \/ NowRestore \/ NowFinish

\* The whole service.
Init == Start(4, 2, 2)

Next ==
    \/ Creates(Procs, URLs, ExpiresInSet) \/ Resolves(Procs, AllCodes)
    \/ StatsCalls(Procs, AllCodes)
    \/ CreateSteps \/ ResolveSteps \/ StatsSteps
    \/ Pass \/ NowPass \/ RepositoryCalls \/ Stop \/ StopCase \/ StopReturn \/ Tick

Spec == Init /\ [][Next]_vars

\* Click accounting: one URL without expiry is created, resolved and its
\* statistics read while the scheduler runs passes.
SyncOps == 4
SyncFaults == 2
SyncPasses == 1

InitSync == Start(SyncOps, SyncFaults, SyncPasses)

NextSync ==
    \/ Creates({"h1"}, {"http://a"}, {""})
    \/ Resolves(Procs, {ShortCodeOf(1)}) \/ StatsCalls(Procs, {ShortCodeOf(1)})
    \/ CreateSteps \/ ResolveSteps \/ StatsSteps \/ Pass

SpecSync == InitSync /\ [][NextSync]_vars

\* Creation and dedup: concurrent Create calls for two URLs, with and without
\* expiry, while the clock advances.
CreateOps == 2
CreateFaults == 1

InitCreate == Start(CreateOps, CreateFaults, 0)

NextCreate == Creates(Procs, URLs, ExpiresInSet) \/ CreateSteps \/ Tick

SpecCreate == InitCreate /\ [][NextCreate]_vars

\* Resolution: one URL is created, then resolved and its statistics read,
\* under its code and under a code no record carries, while the clock advances
\* and cached snapshots are deleted through RedisRepository.DeleteURL.
ResolveOps == 3
ResolveFaults == 1

InitResolve == Start(ResolveOps, ResolveFaults, 0)

NextResolve ==
    \/ Creates({"h1"}, {"http://a"}, ExpiresInSet)
    \/ Resolves(Procs, {ShortCodeOf(1), UnknownCode})
    \/ StatsCalls(Procs, {ShortCodeOf(1), UnknownCode})
    \/ CreateSteps \/ ResolveSteps \/ StatsSteps \/ Tick
    \/ (\E c \in {ShortCodeOf(1), UnknownCode} : DeleteURLCall(c))

SpecResolve == InitResolve /\ [][NextResolve]_vars

\* The placeholder window: a Resolve of "temp" runs while a Create is between
\* its INSERT and its UPDATE, and the scheduler syncs the counter it leaves.
TempOps == 2
TempFaults == 1
TempPasses == 1

InitTemp == Start(TempOps, TempFaults, TempPasses)

NextTemp ==
    \/ Creates({"h1"}, {"http://a"}, {""})
    \/ Resolves({"h2"}, {TempCode})
    \/ CreateSteps \/ ResolveSteps \/ Pass

SpecTemp == InitTemp /\ [][NextTemp]_vars

\* Shutdown: one URL is created and resolved while the scheduler runs, then
\* main's deferred Stop() closes the stop channel and waits for run().
StopOps == 3
StopFaults == 1
StopPasses == 1

InitStop == Start(StopOps, StopFaults, StopPasses)

NextStop ==
    \/ Creates({"h1"}, {"http://a"}, {""})
    \/ Resolves(Procs, {ShortCodeOf(1)})
    \/ CreateSteps \/ ResolveSteps
    \/ Pass \/ Stop \/ StopCase \/ StopReturn

SpecStop == InitStop /\ [][NextStop]_vars

\* Rate limiting: requests of one caller are evaluated one after another while
\* the clock advances.
RateOps == 4
RateFaults == 1
RateMaxTime == 6

InitRate == Start(RateOps, RateFaults, 0)

NextRate ==
    \/ BeginCheck("m1") \/ Prune("m1") \/ Precheck("m1") \/ Record("m1") \/ Expire("m1")
    \/ Advance(RateMaxTime)

SpecRate == InitRate /\ [][NextRate]_vars

\* On-demand passes: one URL is created and resolved while the scheduler runs
\* its periodic and final passes and SyncNow() runs passes of its own.
NowOps == 3
NowFaults == 1
NowPasses == 2

InitNow == Start(NowOps, NowFaults, NowPasses)

NextNow ==
    \/ Creates({"h1"}, {"http://a"}, {""})
    \/ Resolves({"h2"}, {ShortCodeOf(1)})
    \/ CreateSteps \/ ResolveSteps
    \/ Pass \/ NowPass \/ Stop \/ StopCase \/ StopReturn

SpecNow == InitNow /\ [][NextNow]_vars

\* The repository as a library: one URL is created and resolved while a caller
\* outside the service deletes cached snapshots and adds clicks by record id.
RepoOps == 4
RepoFaults == 1

InitRepo == Start(RepoOps, RepoFaults, 0)

NextRepo ==
    \/ Creates({"h1"}, {"http://a"}, {""})
    \/ Resolves({"h2"}, {ShortCodeOf(1)})
    \/ CreateSteps \/ ResolveSteps \/ RepositoryCalls \/ Tick

SpecRepo == InitRepo /\ [][NextRepo]_vars

\* Concurrent rate limiting: two requests of one caller are in the middleware
\* at the same time, their pipelines interleaved, and no store call fails.
RateConcOps == 3
RateConcMaxTime == 4

InitRateConc == Start(RateConcOps, 0, 0)

NextRateConc ==
    \/ (\E p \in MProcs : BeginCheck(p) \/ Prune(p) \/ Precheck(p) \/ Record(p) \/ Expire(p))
    \/ Advance(RateConcMaxTime)

SpecRateConc == InitRateConc /\ [][NextRateConc]_vars

\* Two limiters: one caller sends requests to a route behind the general
\* limiter and to POST /shorten behind the strict limiter; no store call fails.
RateTwoOps == 3
RateTwoMaxTime == 2

InitRateTwo == Start(RateTwoOps, 0, 0)

NextRateTwo ==
    \/ BeginCheckOn("m1", "general") \/ BeginCheckOn("m2", "strict")
    \/ (\E p \in MProcs : Prune(p) \/ Precheck(p) \/ Record(p) \/ Expire(p))
    \/ Advance(RateTwoMaxTime)

SpecRateTwo == InitRateTwo /\ [][NextRateTwo]_vars

\* Validation: Create is called with URLs the handler accepts and with URLs
\* it refuses.
ValidateOps == 3
ValidateFaults == 1

InitValidate == Start(ValidateOps, ValidateFaults, 0)

NextValidate ==
    \/ Creates({"h1"}, URLs \cup BadURLs, {""})
    \/ (\E p \in Procs, u \in URLs \cup BadURLs : BeginCreateInvalid(p, u))
    \/ CreateSteps

SpecValidate == InitValidate /\ [][NextValidate]_vars

\* Degraded fast store: one URL is created and resolved while up to every
\* fast store call fails.
DegradedOps == 3
DegradedFaults == 4

InitDegraded == Start(DegradedOps, DegradedFaults, 0)

NextDegraded ==
    \/ Creates({"h1"}, {"http://a"}, ExpiresInSet)
    \/ Resolves({"h2"}, {ShortCodeOf(1), UnknownCode})
    \/ CreateSteps \/ ResolveSteps \/ Tick

SpecDegraded == InitDegraded /\ [][NextDegraded]_vars

\* Short codes: encodeBase62, the padding and decodeBase62 on the ids from 0
\* to MaxCodecId and on ids with four, five and six symbols.
MaxCodecId == 200

CodecIds == 0..MaxCodecId \cup {3843, 3844, 238327, 238328, 14776335, 14776336,
                                916132831, 916132832, 2147483647}

InitCodec == \E i \in CodecIds : StartAt(0, 0, 0, [NoCodec EXCEPT !.step = "encode", !.id = i])

NextCodec == Encode \/ Pad \/ Decode

SpecCodec == InitCodec /\ [][NextCodec]_vars

\* Deferred increments: one URL is created and resolved while the ticker keeps
\* firing and no store call fails.
LiveOps == 3

InitLive == Start(LiveOps, 0, 0)

LivePass == TickerCase \/ Scan \/ Drain \/ Apply \/ Finish

NextLive ==
    \/ Creates({"h1"}, {"http://a"}, {""})
    \/ Resolves(Procs, {ShortCodeOf(1)})
    \/ CreateSteps \/ ResolveSteps \/ LivePass

\* the scheduler goroutine is scheduled and its ticker keeps firing
SpecLive == InitLive /\ [][NextLive]_vars /\ WF_vars(LivePass)

\* ================================================================ claims

\* C1: when the apply of a count n > 0 drained for a short code fails (I/O
\* error or no matching row), the pass leaves the durable store unchanged and
\* goes on to restore the count; the restore, when its own INCRBY reaches the
\* fast store, adds n back, so the counter is then at least n (n plus the
\* increments that arrived since the drain).  The drained count n is the
\* counter's value before the drain, and the drain leaves the counter at 0.
C1_RestoreAfterFailedApply ==
    [][ /\ (spc = "loop" /\ spc' = "apply") =>
               (scount' = clicks[skey'] /\ scount' > 0 /\ clicks'[skey'] = 0)
        /\ (spc = "apply" /\ spc' # "apply" /\ serr' # "nil") =>
               (spc' = "restore" /\ urls' = urls /\ skey' = skey /\ scount' = scount)
        /\ (spc = "restore" /\ spc' # "restore" /\ dataLoss' = dataLoss) =>
               (/\ clicks'[skey] = clicks[skey] + scount
                /\ clicks'[skey] >= scount
                /\ urls' = urls) ]_vars

\* C1 witness: a failed apply was restored and an increment arrived meanwhile.
C1_Witness ==
    /\ spc = "loop"
    /\ serr # "nil"
    /\ scount > 0
    /\ dataLoss = 0
    /\ clicks[skey] > scount

\* C2: when a pass has handled all its keys with no store error and no
\* increment since its scan, every short code that had a record and a pending
\* count p at the scan has its durable click count raised by p and its pending
\* counter at zero.
C2_PassAppliesPending ==
    (spc = "loop" /\ skeys = EmptyBag /\ passClean) =>
        \A c \in AllCodes :
            passStart[c].row =>
                /\ Durable(c) = passStart[c].durable + passStart[c].pending
                /\ clicks[c] = 0

\* C2 witness: such a pass has finished for a code with two pending clicks.
C2_Witness ==
    /\ spc = "loop" /\ skeys = EmptyBag /\ passClean
    /\ \E c \in AllCodes : passStart[c].row /\ passStart[c].pending = 2

\* C3: as long as no restore has failed, for every short code with a record
\* the durable click count, the pending counter and the count drained but not
\* yet applied add up to the number of increments completed for the code.
C3_ClickConservation ==
    dataLoss = 0 =>
        \A c \in AllCodes :
            (\E r \in urls : r.short_code = c) =>
                Durable(c) + clicks[c] + InFlight(c) = incrs[c]

\* C3 witness: an increment has completed between a drain and its apply.
C3_Witness ==
    /\ spc = "apply"
    /\ scount > 0
    /\ clicks[skey] > 0
    /\ dataLoss = 0
    /\ \E r \in urls : r.short_code = skey

\* C4: of two successive GetStats answers for a code with no pass step on the
\* code and no fast store error between them, the later totalClicks is the
\* earlier one plus the number of Resolve calls that returned a destination
\* in between.
C4_StatsCountResolves ==
    \A c \in AllCodes :
        \A a \in prevStats[c], b \in lastStats[c] :
            b.total = a.total + (b.resolved - a.resolved)

\* C4 witness: two such answers with a Resolve between them.
C4_Witness ==
    \E c \in AllCodes :
        \E a \in prevStats[c], b \in lastStats[c] : b.resolved > a.resolved

\* a record is valid as the data model defines it: active, and the expiry
\* unset or later than t
ValidAt(r, t) == r.is_active /\ \A e \in r.expires_at : e > t

\* C5: a Create for a destination URL for which an earlier Create returned
\* the short code of the record it inserted, whose dedup lookup reads the
\* store while that record is still valid, returns that same short code and
\* inserts nothing (a lookup that fails with an I/O error returns the error
\* instead, and inserts nothing either).
C5_CreateTwiceSameCode ==
    [][ \A p \in Procs :
          (/\ pc[p] = "c_lookup" /\ pc'[p] # "c_lookup"
           /\ \E r \in urls : /\ r.url_hash = hashURL(req[p].url)
                              /\ r.short_code \in issued[req[p].url]
                              /\ ValidAt(r, now))
          => /\ pc'[p] = "done"
             /\ urls' = urls /\ nextId' = nextId
             /\ err'[p] # "io" =>
                   /\ resp'[p].status = 201
                   /\ resp'[p].short_code \in issued[req[p].url]
                   /\ \E r \in urls : /\ r.url_hash = hashURL(req[p].url)
                                      /\ r.short_code = resp'[p].short_code ]_vars

\* C5 witness: a second Create has returned the code the first one issued.
C5_Witness ==
    \E p \in Procs :
        /\ pc[p] = "done" /\ req[p].kind = "create"
        /\ existing[p] # {}
        /\ resp[p].status = 201
        /\ resp[p].short_code \in issued[req[p].url]

\* C6: a Create whose dedup lookup found a record that is not valid, and that
\* met no I/O error, succeeds with a new record and a short code different
\* from the invalid record's.
C6_CreateAfterInvalidRecord ==
    \A p \in Procs :
        (/\ pc[p] = "done" /\ req[p].kind = "create"
         /\ \E x \in existing[p] : ~IsValid(x, chkAt[p])
         /\ err[p] # "io")
        => /\ resp[p].status = 201
           /\ \A x \in existing[p] : resp[p].short_code # x.short_code
           /\ \E r \in urls : /\ r.short_code = resp[p].short_code
                              /\ r.url_hash = hashURL(req[p].url)
                              /\ r \notin existing[p]

\* C7: the urls table never holds two records with the same content hash.
C7_OneRecordPerHash ==
    \A r1 \in urls, r2 \in urls : r1.url_hash = r2.url_hash => r1 = r2

\* C7 witness: of two concurrent Create calls for one URL that both found no
\* record, one has inserted and the other's INSERT was refused.
C7_Witness ==
    \E p \in Procs, q \in Procs :
        /\ p # q
        /\ req[p].url = req[q].url
        /\ pc[p] = "done" /\ err[p] = "unique" /\ existing[p] = {}
        /\ pc[q] \in {"c_update", "c_cache", "done"} /\ url[q] # {}

\* C8: a Resolve that returns a destination has checked a record that was
\* active and whose expiry, if set, was later than the time of the check.
C8_ResolveRejectsInvalid ==
    \A p \in Procs :
        (pc[p] = "done" /\ req[p].kind = "resolve" /\ resp[p].status = 301)
        => \A u \in url[p] : ValidAt(u, chkAt[p])

\* C9: a finished Resolve or GetStats for a short code that no record carries
\* has returned the not-found error unless a store call failed with an I/O
\* error; not found is answered 404 not_found and an I/O error internal_error.
C9_UnknownCodeNotFound ==
    \A p \in Procs :
        (/\ pc[p] = "done" /\ req[p].kind \in {"resolve", "stats"}
         /\ GetURLByShortCode(req[p].code) = {})
        => /\ err[p] \in {"notfound", "io"}
           /\ faults = ResolveFaults => err[p] = "notfound"
           /\ err[p] = "notfound" => (resp[p].status = 404 /\ resp[p].error = "not_found")
           /\ err[p] = "io" => (resp[p].status # 404 /\ resp[p].error = "internal_error")

\* C9 witness: both a Resolve and a GetStats have answered not found.
C9_Witness ==
    \E p \in Procs, q \in Procs :
        /\ pc[p] = "done" /\ req[p].kind = "resolve" /\ resp[p].status = 404
        /\ pc[q] = "done" /\ req[q].kind = "stats" /\ resp[q].status = 404

\* C10: the restore step that follows an apply refused with not found leaves
\* the pending counter of the code as it was.
C10_NoRestoreAfterNotFound ==
    [][ (spc = "restore" /\ serr = "notfound" /\ spc' # "restore")
        => clicks'[skey] = clicks[skey] ]_vars

\* C11: when Stop() has returned, run() has returned after a final pass that
\* it started on the stop signal; and if no store call failed since Stop() was
\* called (no handler increments after it), every short code with a record has
\* a pending counter of zero and a durable count equal to what was durable,
\* pending or drained when Stop() was called.
C11_StopDrainsPending ==
    stopPc = "returned" =>
        /\ spc = "stopped" /\ final /\ stopCh
        /\ faults = stopSnap.faults =>
              \A c \in AllCodes :
                  (\E r \in urls : r.short_code = c) =>
                      (clicks[c] = 0 /\ Durable(c) = stopSnap.total[c])

\* C11 witness: Stop() has returned and the passes after it moved a pending
\* count into the durable store.
C11_Witness ==
    /\ stopPc = "returned"
    /\ faults = stopSnap.faults
    /\ \E c \in AllCodes : Durable(c) = 2 /\ stopSnap.total[c] = 2 /\ incrs[c] = 2
    /\ passes = StopPasses

\* the scheduler loop's state: Idle, Running or Stopped
Phase(x) ==
    CASE x = "idle" -> "Idle"
      [] x \in {"scan", "loop", "apply", "restore"} -> "Running"
      [] x = "stopped" -> "Stopped"
      [] OTHER -> "none"

\* C20: the scheduler loop is Idle, Running or Stopped; it leaves Idle only
\* for Running and Running only for Idle or, when the pass was the final one
\* started on the stop signal, for Stopped; it never leaves Stopped.
C20_SchedulerStates ==
    [][ /\ Phase(spc) # "none" /\ Phase(spc') # "none"
        /\ Phase(spc) = "Idle" => Phase(spc') \in {"Idle", "Running"}
        /\ Phase(spc) = "Running" => Phase(spc') \in {"Running", "Idle", "Stopped"}
        /\ Phase(spc) = "Stopped" => Phase(spc') = "Stopped"
        /\ (Phase(spc) # "Stopped" /\ Phase(spc') = "Stopped") =>
               (Phase(spc) = "Running" /\ stopCh /\ final /\ skeys = EmptyBag) ]_vars

\* C20 witness: the loop is Stopped after a periodic pass and the final pass.
C20_Witness == spc = "stopped" /\ passes = 0 /\ stopPc = "returned"

\* the requests passed on to the handler with a timestamp inside the window
\* that ends at t
AdmittedInWindow(t) == {i \in DOMAIN admitLog : admitLog[i] > t - RateWindow}

\* t differs from the timestamps of the requests evaluated before, which differ
\* from each other
DistinctTimestamps(t) ==
    /\ \A i \in DOMAIN admitLog : admitLog[i] # t
    /\ \A i \in DOMAIN admitLog, j \in DOMAIN admitLog : admitLog[i] = admitLog[j] => i = j

\* the timestamps recorded in a sorted set
ZTimes(members) == {e.member : e \in members}

\* the timestamps of the requests passed on inside the window that ends at t
WindowTimes(t) == {admitLog[i] : i \in AdmittedInWindow(t)}

\* the rounding of the scores to float64 does not show in the window that ends
\* at t: every request passed on inside the window still has its entry (no
\* earlier prune took it for a score equal to its window start's), with a
\* score above the one read for this window start
ExactScores(t) ==
    \A i \in DOMAIN admitLog :
        admitLog[i] > t - RateWindow =>
            \E e \in ZMembers : e.member = admitLog[i] /\ e.score > float64(t - RateWindow)

\* the key that was live at timestamp t has not expired since
StillLive(t) == (\E x \in zexp : now >= x) => (\E x \in zexp : t >= x)

C13_FailOpen ==
    [][ \A p \in MProcs :
          /\ (mpc[p] = "prune" /\ mpc'[p] # "prune")
             => (mpc'[p] = "precheck" /\ zset' \subseteq zset)
          /\ (/\ mpc[p] = "precheck" /\ mpc'[p] # "precheck"
              /\ (mloc[p].err \/ faults' < faults))
             => /\ mpc'[p] = "done"
                /\ mres'[p].next /\ mres'[p].status = 0
                /\ zset' \subseteq zset
          /\ (mpc[p] = "record" /\ mpc'[p] # "record") => mpc'[p] = "expire"
          /\ (/\ mpc[p] = "expire" /\ mpc'[p] # "expire"
              /\ (mloc[p].err \/ faults' < faults))
             => /\ mpc'[p] = "done"
                /\ mres'[p].next /\ mres'[p].status = 0 ]_vars

\* C13 witness: a request was passed on by a failed precheck although the
\* window of the caller was full.
C13_Witness ==
    /\ mpc["m1"] = "done" /\ mres["m1"] = FailOpen
    /\ faults < RateFaults
    /\ Cardinality(ZRemRangeByScore(ZMembers, mloc["m1"].now - RateWindow)) >= RateLimit

\* C14: a Create request whose URL is empty, does not parse, has no scheme or
\* no host, or has a scheme other than http and https, is answered 400
\* invalid_request in the step that accepts it, and that step leaves the urls
\* table, the id sequence, the cached snapshots and the click counters as
\* they were; the request never reaches the service.
C14_InvalidURLRejected ==
    [][ \A p \in Procs :
          (/\ req'[p].kind = "create" /\ req'[p].url \in BadURLs
           /\ <<pc[p], req[p]>> # <<pc'[p], req'[p]>>)
          => /\ pc'[p] = "done"
             /\ resp'[p].status = 400 /\ resp'[p].error = "invalid_request"
             /\ urls' = urls /\ nextId' = nextId
             /\ cache' = cache /\ clicks' = clicks ]_vars

\* C14 witness: a URL with another scheme and a URL that does not parse have
\* been answered 400 while a record exists.
C14_Witness ==
    /\ urls # {}
    /\ \E p \in Procs : /\ pc[p] = "done" /\ req[p].kind = "create"
                        /\ req[p].url = "ftp://a" /\ resp[p].status = 400
    /\ \E p \in Procs : /\ pc[p] = "done" /\ req[p].kind = "create"
                        /\ req[p].url = "%zz" /\ resp[p].status = 400

\* C15: a fast store call that fails does not end Create or Resolve and is
\* not returned: a failed snapshot read sends Resolve to the durable store,
\* whose record alone gives the result (not found, expired, or the
\* destination); a Resolve that found a valid record returns its destination
\* whether the snapshot write and the click increment succeed or fail; and
\* Create returns the short code of the record it inserted whether the
\* snapshot write succeeds or fails.
C15_FastStoreBestEffort ==
    [][ \A p \in Procs :
          pc'[p] # pc[p] =>
            /\ (pc[p] = "r_cache" /\ faults' < faults)
               => (pc'[p] = "r_db" /\ err'[p] = "nil" /\ resp'[p] = NoResponse)
            /\ (pc[p] = "r_db" /\ faults' = faults)
               => LET found == GetURLByShortCode(req[p].code)
                  IN  /\ found = {} => (pc'[p] = "done" /\ resp'[p] = respondNotFound)
                      /\ (\E u \in found : ~IsValid(u, now))
                            => (pc'[p] = "done" /\ resp'[p] = respondExpired)
                      /\ (found # {} /\ \A u \in found : IsValid(u, now))
                            => (pc'[p] = "r_set" /\ url'[p] = found)
            /\ pc[p] = "r_set" => (pc'[p] = "r_incr" /\ err'[p] = "nil")
            /\ pc[p] = "r_incr"
               => /\ pc'[p] = "done" /\ err'[p] = "nil"
                  /\ \E u \in url[p] : resp'[p] = respondRedirect(u.original_url)
            /\ pc[p] = "c_cache"
               => /\ pc'[p] = "done" /\ err'[p] = "nil"
                  /\ resp'[p].status = 201
                  /\ \E u \in url[p], r \in urls :
                        /\ r.id = u.id /\ r.url_hash = hashURL(req[p].url)
                        /\ resp'[p].short_code = r.short_code ]_vars

\* C15 witness: a Create and a Resolve have succeeded although each of their
\* four fast store calls failed.
C15_Witness ==
    /\ ops = DegradedOps - 2 /\ faults = 0
    /\ pc["h1"] = "done" /\ req["h1"].kind = "create" /\ resp["h1"].status = 201
    /\ pc["h2"] = "done" /\ req["h2"].kind = "resolve" /\ resp["h2"].status = 301
    /\ resp["h2"].original_url = req["h1"].url

\* C16: when the read of the pending counter fails, GetStats succeeds (200,
\* no error) and its click count is the click_count of the record it read
\* from the durable store.
C16_StatsWithoutPending ==
    [][ \A p \in Procs :
          (pc[p] = "s_redis" /\ pc'[p] # "s_redis" /\ faults' < faults)
          => /\ pc'[p] = "done" /\ err'[p] = "nil"
             /\ resp'[p].status = 200 /\ resp'[p].error = ""
             /\ \E u \in url[p] : /\ resp'[p].click_count = u.click_count
                                  /\ resp'[p].short_code = req[p].code ]_vars

\* C16 witness: a GetStats whose pending read failed while the counter held
\* clicks has reported the durable count of a record that had one.
C16_Witness ==
    \E p \in Procs :
        /\ pc[p] = "done" /\ req[p].kind = "stats"
        /\ \E n \in missed[p] : n > 0
        /\ resp[p].status = 200 /\ resp[p].click_count > 0
        /\ resp[p].click_count = Durable(req[p].code)

\* C17: for every id of the run, decodeBase62 of encodeBase62(id) is id, and
\* so is decodeBase62 of the code left-padded with '0' to ShortCodeLength;
\* the code of 0 is the single character '0'.
C17_Base62RoundTrip ==
    codec.step = "done" =>
        /\ codec.num = codec.id
        /\ codec.numPadded = codec.id
        /\ Len(codec.padded) >= ShortCodeLength
        /\ \A i \in 1..(Len(codec.padded) - Len(codec.code)) : codec.padded[i] = 48
        /\ codec.id = 0 => codec.code = <<48>>

\* C17 witness: the round trip of an id whose code has upper and lower case
\* letters and is padded: 916132831 is "zzzzz".
C17_Witness ==
    /\ codec.step = "done" /\ codec.id = 916132831
    /\ codec.code = <<122, 122, 122, 122, 122>>
    /\ codec.padded = <<48, 122, 122, 122, 122, 122>>
    /\ codec.num = 916132831

\* C18: when no Create is between its INSERT and its UPDATE every record of
\* the urls table carries the padded encodeBase62 of its id as short code, and
\* a Resolve that returned a destination read a record whose padded
\* encodeBase62(id) is the code it was asked for.
C18_ShortCodeFromId ==
    /\ (\A p \in Procs : pc[p] # "c_update")
          => \A r \in urls : r.short_code = ShortCodeOf(r.id)
    /\ \A p \in Procs :
          (pc[p] = "done" /\ req[p].kind = "resolve" /\ resp[p].status = 301)
          => \A u \in url[p] : req[p].code = ShortCodeOf(u.id)

\* C19: with the ticker firing again and again and no store failure, the
\* durable click count of the record reaches every number of increments
\* that have completed for its short code.
C19_IncrementsEventuallyDurable ==
    \A n \in 1..LiveOps :
        (incrs[ShortCodeOf(1)] >= n) ~> (Durable(ShortCodeOf(1)) >= n)

\* C19 witness: a pass has applied an increment that arrived after the pass
\* before it had drained the counter.
C19_Witness ==
    LET c == ShortCodeOf(1)
    IN  /\ passStart[c].durable = 1 /\ passStart[c].pending = 1
        /\ Durable(c) = 2 /\ clicks[c] = 0 /\ incrs[c] = 2

\* C21 as stated: a successful prune removes only the timestamps strictly
\* older than windowStart = now - windowDuration, so that the set holds
\* afterwards exactly the entries with timestamp >= windowStart, an entry
\* recorded exactly at windowStart among them, and these are counted.  Checked
\* where the float64 rounding of the scores does not show: every entry newer
\* than windowStart has a score above the one read for windowStart.
C21_PruneKeepsWindowStart ==
    [][ \A p \in MProcs :
          LET windowStart == mloc[p].now - RateWindow
              inWindow == {e \in ZMembers : e.member >= windowStart}
          IN  /\ (/\ mpc[p] = "prune" /\ mpc'[p] # "prune" /\ faults' = faults
                  /\ \A e \in ZMembers :
                         e.member > windowStart => e.score > float64(windowStart))
                 => zset' = inWindow
              /\ (/\ mpc[p] = "precheck" /\ mpc'[p] # "precheck"
                  /\ ~mloc[p].err /\ faults' = faults)
                 => mloc'[p].count = Cardinality(ZMembers) ]_vars

\* C21 amended: the prune removes the entries whose score, the timestamp as
\* a float64, is at most the float64 read for windowStart.  After the prune
\* the set holds exactly the entries with a greater score: every entry with
\* timestamp <= windowStart is gone, the one recorded exactly at windowStart
\* included, every entry more than one float64 spacing newer than windowStart
\* is kept, and an entry in between is kept exactly when its score differs
\* from the one of windowStart.  A prune that fails leaves the set as it was
\* or pruned in this way.  The count changes nothing and, when neither
\* command has failed, is the number of entries in the set when it runs.
C21_PruneThroughWindowStart ==
    [][ \A p \in MProcs :
          /\ (mpc[p] = "prune" /\ mpc'[p] # "prune")
             => LET windowStart == mloc[p].now - RateWindow
                    kept == {e \in ZMembers : e.score > float64(windowStart)}
                IN  /\ zset' \in {ZMembers, kept}
                    /\ \A e \in kept : e.member > windowStart
                    /\ \A e \in ZMembers : e.member > windowStart + Ulp => e \in kept
                    /\ faults' = faults => zset' = kept
          /\ (mpc[p] = "precheck" /\ mpc'[p] # "precheck")
             => /\ zset' = ZMembers
                /\ (~mloc[p].err /\ faults' = faults)
                       => mloc'[p].count = Cardinality(ZMembers) ]_vars

\* C21 witness: the third evaluation found one entry recorded exactly at its
\* windowStart and a later one; the entry at windowStart is gone, the count is
\* 1 and the request goes on to the record step.
C21_Witness ==
    /\ faults = RateFaults /\ ops = RateOps - 3
    /\ mpc["m1"] = "record" /\ mloc["m1"].count = 1
    /\ Len(admitLog) = 2
    /\ admitLog[1] = mloc["m1"].now - RateWindow
    /\ admitLog[2] > admitLog[1]
    /\ ZTimes(zset) = {admitLog[2]}

\* C22: a request rejected with 429 is finished by the prune-and-count
\* pipeline: no record step follows, its own timestamp is not added, the key's
\* expiry is left as it was, and the set holds afterwards exactly the entries
\* that the prune left (those with a score above windowStart's), at least
\* RateLimit of them.
C22_RejectedNotRecorded ==
    [][ \A p \in MProcs :
          (mpc[p] = "precheck" /\ mres'[p].status = 429)
          => LET windowStart == mloc[p].now - RateWindow
             IN  /\ mpc'[p] = "done" /\ ~mres'[p].next
                 /\ zset' = zset
                 /\ zset' = {e \in ZMembers : e.score > float64(windowStart)}
                 /\ Cardinality(zset') >= RateLimit
                 /\ mloc[p].now \notin ZTimes(ZMembers) => mloc[p].now \notin ZTimes(zset')
                 /\ zexp' = zexp
                 /\ admitLog' = admitLog ]_vars

\* C22 witness: a request was rejected later than the last recorded one; its
\* timestamp is not in the full set and the key still expires one window
\* after the last recorded request, earlier than one window after now.
C22_Witness ==
    /\ faults = RateFaults
    /\ mpc["m1"] = "done" /\ mres["m1"].status = 429
    /\ Cardinality(zset) = RateLimit
    /\ mloc["m1"].now \notin ZTimes(zset)
    /\ \A t \in ZTimes(zset) : t < mloc["m1"].now
    /\ \E x \in zexp : x < mloc["m1"].now + RateWindow

\* a step of a request handler: a call is accepted or a handler moves on
HandlerStep == pc' # pc \/ req' # req

\* C23: every step of Create, Resolve and GetStats, whatever its outcome,
\* leaves the click_count of every record as it was and a record it inserts
\* has click_count 0; the only step that changes a record's click_count is
\* the apply step of the reconciliation pass.
C23_ClickCountOnlyByPass ==
    [][ /\ HandlerStep =>
              /\ \A r \in urls : \E r2 \in urls' :
                     r2.id = r.id /\ r2.click_count = r.click_count
              /\ \A r2 \in urls' :
                     (\A r \in urls : r.id # r2.id) => r2.click_count = 0
        /\ (\E r \in urls, r2 \in urls' :
                r.id = r2.id /\ r.click_count # r2.click_count)
           => (spc = "apply" /\ spc' # "apply" /\ ~HandlerStep) ]_vars

\* C23 witness: the pass has applied one click to the record, and a Resolve
\* and a GetStats were served afterwards: the statistics show two clicks, one
\* durable and one pending.
C23_Witness ==
    /\ spc = "idle" /\ passes = 0 /\ ops = 0
    /\ Durable(ShortCodeOf(1)) = 1 /\ clicks[ShortCodeOf(1)] = 1
    /\ \E p \in Procs : pc[p] = "done" /\ req[p].kind = "stats"
                        /\ resp[p].status = 200 /\ resp[p].click_count = 2
    /\ \E p \in Procs : pc[p] = "done" /\ req[p].kind = "resolve" /\ resp[p].status = 301

\* the time a cached snapshot has left is at most the ceiling and at most the
\* time its record has left until it expires
TTLWithinBounds(e) ==
    /\ e.exp # {}
    /\ \A x \in e.exp :
          /\ x - now <= urlCacheTTL
          /\ \A r \in urls : r.id = e.data.id =>
                \A ex \in r.expires_at : x - now <= ex - now

\* C24 as stated: every cached snapshot that exists has a remaining TTL of at
\* most the minimum of urlCacheTTL and its record's remaining time to expiry,
\* after it is written by Create or Resolve and after Resolve calls served
\* from the cache.
C24_SnapshotTTLBounded ==
    \A c \in AllCodes : \A e \in GetURL(c) : TTLWithinBounds(e)

\* C25: among the steps of the request handlers, the only one that changes a
\* pending click counter is the last step of a Resolve that returns the
\* destination (301), and it adds exactly 1 to the counter of the resolved
\* code when the INCR succeeds; a Resolve that ends with not found, expired
\* or a store error ends with every counter as it was, and so does a Resolve
\* that redirects while the INCR fails.
C25_PendingOnlyByResolve ==
    [][ /\ \A c \in AllCodes :
              (HandlerStep /\ clicks'[c] # clicks[c])
              => \E p \in Procs :
                    /\ pc[p] = "r_incr" /\ pc'[p] = "done"
                    /\ req[p].kind = "resolve" /\ req[p].code = c
                    /\ resp'[p].status = 301
                    /\ clicks'[c] = clicks[c] + 1
        /\ \A p \in Procs :
              (req[p].kind = "resolve" /\ pc[p] # "done" /\ pc'[p] = "done")
              => /\ resp'[p].status # 301 =>
                       /\ err'[p] \in {"notfound", "expired", "io"}
                       /\ clicks' = clicks
                 /\ (resp'[p].status = 301 /\ faults' = faults) =>
                       clicks' = [clicks EXCEPT ![req[p].code] = @ + 1]
                 /\ (resp'[p].status = 301 /\ faults' < faults) => clicks' = clicks ]_vars

\* C25 witness: one Resolve returned the destination and the counter of its
\* code is 1; another Resolve ended with not found and the counter of its code
\* is 0.
C25_Witness ==
    /\ faults = ResolveFaults
    /\ \E p \in Procs, q \in Procs :
          /\ pc[p] = "done" /\ req[p].kind = "resolve" /\ resp[p].status = 301
          /\ clicks[req[p].code] = 1
          /\ pc[q] = "done" /\ req[q].kind = "resolve" /\ err[q] = "notfound"
          /\ clicks[req[q].code] = 0

\* the timestamps of admitted requests inside the window that ends at t
\* (requests that share a timestamp count once)
AdmittedTimestamps(t) ==
    {admitLog[i] : i \in DOMAIN admitLog} \cap {x \in 0..t : x > t - RateWindow}

\* C26 as stated: with the prune-and-count and record steps of concurrent
\* requests of one caller interleaved, the admitted requests whose timestamps
\* fall inside one window never number more than RateLimit.  Checked for the
\* windows on which the float64 rounding of the scores has no effect: every
\* admitted timestamp of the window is in the set with a score above the
\* rounded start of the window.
C26_ConcurrentLimit ==
    \A t \in 0..RateConcMaxTime :
        (\A x \in AdmittedTimestamps(t) :
            \E e \in zset : e.member = x /\ e.score > float64(t - RateWindow))
        => Cardinality(AdmittedTimestamps(t)) <= RateLimit

\* C27 as stated: with no store failure, a GetStats of a code answers a
\* totalClicks at least as large as every totalClicks that a GetStats of the
\* same code had answered before it began, also when it runs between the
\* pass's drain of the counter and its apply to the record.
C27_StatsNeverDecrease ==
    [][ \A p \in Procs :
          (/\ faults' = SyncFaults
           /\ pc[p] = "s_redis" /\ pc'[p] = "done" /\ resp'[p].status = 200)
          => resp'[p].click_count >= statsSeen[p] ]_vars

\* C28: with on-demand passes overlapping the periodic and the final pass, the
\* click_count of a code's record never exceeds the number of INCR calls
\* completed for the code; and when no store call has failed, both passes have
\* returned and the pending counter of the code is empty, the click_count
\* equals that number.
C28_NoDoubleApply ==
    \A c \in AllCodes :
        /\ Durable(c) <= incrs[c]
        /\ (/\ faults = NowFaults
            /\ spc \in {"idle", "stopped"} /\ nsync.pc = "idle"
            /\ clicks[c] = 0)
           => Durable(c) = incrs[c]

\* C28 witness: the periodic pass has applied the first click of the code
\* and has not returned yet, while the on-demand pass holds the second click,
\* drained and not yet applied.
C28_Witness ==
    /\ faults = NowFaults
    /\ spc = "loop" /\ skey = ShortCodeOf(1) /\ Durable(ShortCodeOf(1)) = 1
    /\ nsync.pc = "apply" /\ nsync.key = ShortCodeOf(1) /\ nsync.count = 1
    /\ incrs[ShortCodeOf(1)] = 2

\* C29 as stated: every cached snapshot that exists under the key of a short
\* code c carries the destination URL, the expiry and the active flag of the
\* record of the urls table whose short code is c, also when a Resolve ran
\* between a Create's INSERT and its UPDATE of the short code.
C29_SnapshotMatchesRecord ==
    \A c \in AllCodes : \A e \in GetURL(c) :
        \E r \in urls :
            /\ r.short_code = c
            /\ r.original_url = e.data.original_url
            /\ r.expires_at = e.data.expires_at
            /\ r.is_active = e.data.is_active

\* C30 as stated: a Create that has returned an error has left the urls table
\* as it was when the call began.  The only writes of a Create are the INSERT
\* of its row and the UPDATE of that row's short code, so this says: no row
\* that the failed call inserted is in the table, with the placeholder code
\* or any other.
C30_FailedCreateLeavesNoRow ==
    \A p \in Procs :
        (pc[p] = "done" /\ req[p].kind = "create" /\ err[p] # "nil")
        => \A u \in url[p] : \A r \in urls : r.id # u.id

\* C31 as stated: when no store call has failed, two Create calls for
\* different destination URLs, served by two handlers at the same time in
\* whatever interleaving of their INSERT and UPDATE steps, have both returned
\* 201 without error and with different short codes.
C31_ConcurrentCreatesSucceed ==
    \A p \in Procs, q \in Procs :
        (/\ p # q /\ faults = CreateFaults
         /\ pc[p] = "done" /\ req[p].kind = "create"
         /\ pc[q] = "done" /\ req[q].kind = "create"
         /\ req[p].url # req[q].url)
        => /\ err[p] = "nil" /\ err[q] = "nil"
           /\ resp[p].status = 201 /\ resp[q].status = 201
           /\ resp[p].short_code # resp[q].short_code

\* the requests that limiter rl passed on with a timestamp inside its window
\* that ends at t
AdmittedBy(rl, t) ==
    {k \in DOMAIN admitLog : admitBy[k] = rl /\ admitLog[k] > t - Duration(rl)}

\* C32 as stated: the general and the strict limiter decide independently for
\* one caller.  A prune-and-count of limiter rl that runs while no other
\* request of the caller is inside the middleware, at a timestamp of its own
\* and without store failure, admits the request when fewer than rl's limit
\* requests were admitted by rl itself inside rl's window and rejects it when
\* rl's limit is reached by such requests whose entries are in the set, and
\* its prune, where the float64 rounding of the scores does not show, removes
\* no entry of the other limiter that is still inside that limiter's window.
C32_IndependentLimiters ==
    [][ \A p \in MProcs :
          LET rl == mloc[p].rl
              n == Cardinality(AdmittedBy(rl, mloc[p].now))
              alone == \A q \in MProcs \ {p} : mpc[q] \in {"idle", "done"}
          IN  /\ (/\ mpc[p] = "precheck" /\ mpc'[p] # "precheck"
                  /\ faults' = faults /\ alone
                  /\ DistinctTimestamps(mloc[p].now))
                 => /\ n < Requests(rl) => mpc'[p] = "record"
                    /\ (/\ n >= Requests(rl)
                        /\ \A k \in AdmittedBy(rl, mloc[p].now) :
                               admitLog[k] \in ZTimes(ZMembers))
                       => (mpc'[p] = "done" /\ mres'[p].status = 429)
              /\ (/\ mpc[p] = "prune" /\ mpc'[p] # "prune"
                  /\ faults' = faults /\ alone
                  /\ \A e \in ZMembers :
                         e.member > mloc[p].now - Duration(rl)
                             => e.score > float64(mloc[p].now - Duration(rl)))
                 => \A other \in Limiters \ {rl} : \A k \in AdmittedBy(other, now) :
                        admitLog[k] \in ZTimes(ZMembers) => admitLog[k] \in ZTimes(zset') ]_vars

\* C33 as stated: with the store available, the ZADD of every admitted
\* request adds exactly one entry to the caller's set, and a count that runs
\* while the set holds the timestamps of the requests admitted inside its
\* window counts as many entries as such requests, also when admitted requests
\* share a timestamp.
C33_OneEntryPerAdmitted ==
    [][ \A p \in MProcs :
          /\ (mpc[p] = "record" /\ mpc'[p] # "record" /\ faults' = RateFaults)
             => Cardinality(zset') = Cardinality(ZMembers) + 1
          /\ (/\ mpc[p] = "precheck" /\ mpc'[p] # "precheck" /\ faults' = RateFaults
              /\ ZTimes(ZMembers) = WindowTimes(mloc[p].now))
             => mloc'[p].count = Cardinality(AdmittedInWindow(mloc[p].now)) ]_vars

====
